---- MODULE Spec2Model ----
(***************************************************************************)
(* Model of the retrying, caching element-resolution layer of the          *)
(* AppAutomation suite (DemoPage in src/android/pages/demoPage.js): the    *)
(* element cache, the performance counters, findElement with its retry     *)
(* loop, findElementsParallel, clearCache, smartWait and the page          *)
(* operations that validate their text argument.                           *)
(*                                                                         *)
(* JavaScript runs each async function up to its next await without        *)
(* interruption; every await on the remote session (driver.$,              *)
(* waitForDisplayed, pause, saveScreenshot) is a suspension point, so each *)
(* action below is one such run-to-next-await segment.                     *)
(***************************************************************************)
EXTENDS Integers, Sequences, FiniteSets, TLC

\* ------------------------------------------------------------------ bounds
MaxLookups == 2      \* findElement calls started in one behaviour
MaxBatch == 2        \* longest elementConfigs array given to findElementsParallel
MaxSteps == 2        \* steps of one scenario
MaxConfigCalls == 2  \* getCapabilities calls in one behaviour

\* ------------------------------------------------------- program constants
\* smartWait(condition, maxAttempts = 5, initialDelay = 500)
DefaultMaxAttempts == 5
DefaultInitialDelay == 500
\* this.timeouts of the constructor
elementWait == 15000
retryAttempts == 3
retryDelay == 1000

\* ------------------------------------------------------------------ inputs
\* (selector, description) pairs; two of them share the text of the key
Descriptors == { <<"a", "c">>, <<"a", "b_c">>, <<"a_b", "c">> }
\* the optional timeout argument; 0 stands for null / undefined, which is what
\* every caller of findElement and findElementsParallel in the suite passes
TimeoutArgs == {0}

\* maxAttempts and initialDelay arguments of smartWait
MaxAttemptsArgs == {0, 1, 3, DefaultMaxAttempts}
InitialDelayArgs == {DefaultInitialDelay, 200}

\* JavaScript values, as far as truthiness, typeof and trim() tell them apart
JsString(s) == [type |-> "string", str |-> s, num |-> 0]
JsNumber(n) == [type |-> "number", str |-> <<>>, num |-> n]
JsBoolean(b) == [type |-> "boolean", str |-> <<>>, num |-> IF b THEN 1 ELSE 0]
JsNull == [type |-> "object", str |-> <<"null">>, num |-> 0]
JsUndefined == [type |-> "undefined", str |-> <<>>, num |-> 0]

\* findElementWithRetry(driver, locator, description, maxRetries = 3, timeout)
MaxRetriesArgs == -1..6
RetryDescriptions == { "Search Container", "Search Text Field" }

\* the hook variants of steps.js, the result.status values Cucumber gives to
\* AfterStep, and the values process.env may hold
Variants == {"basic", "optimized"}
StepStatuses == {"PASSED", "FAILED", "SKIPPED", "PENDING"}
EnvTrue == JsString(<<"true">>)
BrowserStackValues == {JsUndefined, EnvTrue, JsString(<<"false">>)}
CredentialValues == {JsUndefined, JsString(<<"x">>)}

\* options objects given to getCapabilities, as their own properties in
\* insertion order
Property(key, value) == [key |-> key, value |-> value]
OptionsArgs ==
    { <<>>,
      <<Property("sessionName", JsString(<<"A">>))>>,
      <<Property("sessionName", JsUndefined)>>,
      <<Property("environment", EnvTrue)>>,
      <<Property("deviceProfile", JsString(<<"pixel_6">>))>> }

\* the timeouts of the steps that call the page operations
StepTimeouts == {20000, 30000}

\* text arguments given to the page operations
ArgValues ==
    { JsString(<<>>), JsString(<<" ">>), JsString(<<"\t", " ">>),
      JsString(<<"e", "n">>), JsString(<<" ", "e", "n", " ">>), JsString(<<"d", "e">>),
      JsNumber(0), JsNumber(7), JsNull, JsUndefined, JsBoolean(TRUE) }
\* list names given to enterReadingListName before a reading-list check, and
\* the titles the list may show
ListNameArgs == { JsString(<<"e", "n">>), JsString(<<"d", "e">>), JsString(<<" ">>), JsNull }
TitleTexts == { <<"e", "n">>, <<" ", "d", "e", " ">>, <<>> }

\* results of the condition polled by smartWait
ConditionValues == { JsBoolean(TRUE), JsBoolean(FALSE), JsUndefined, JsString(<<"o", "k">>) }

VARIABLES
    elementCache,        \* Map: cache key -> element handle
    performanceMetrics,  \* elementLookups, cacheHits, totalWaitTime
    calls,               \* the findElement invocations, by number
    batch,               \* the findElementsParallel invocation
    justCleared,         \* history: the last step taken was clearCache
    sw,                  \* the smartWait invocation
    op,                  \* the page operation in progress
    readingListName,     \* this.readingListName
    fr,                  \* the findElementWithRetry invocation of the test scripts
    world,               \* the Cucumber World of the scenario (this in the hooks)
    configCache,         \* Map of capabilities.js: cache key -> capabilities object
    env,                 \* process.env, as far as capabilities.js and the hooks read it
    capsCall             \* the last getCapabilities call and what it returned

vars == <<elementCache, performanceMetrics, calls, batch, justCleared,
          sw, op, readingListName, fr, world, configCache, env, capsCall>>

\* a reading-list check needs two lookups after the one that entered the name
MaxCalls == MaxLookups + 1
CallIds == 1..MaxCalls

\* an element object returned by driver.$ : every call of $ builds a new one
Handle(c, a) == [call |-> c, attempt |-> a]
NoHandle == Handle(0, 0)

\* const cacheKey = `${selector}_${description}`
cacheKey(selector, description) == selector \o "_" \o description

\* Map.prototype.has / get / set / clear
CacheHas(cache, k) == k \in DOMAIN cache
CacheGet(cache, k) == cache[k]
CacheSet(cache, k, e) == [x \in (DOMAIN cache) \cup {k} |-> IF x = k THEN e ELSE cache[x]]
EmptyCache == [x \in {} |-> NoHandle]

\* const actualTimeout = timeout || this.timeouts.elementWait
actualTimeout(timeout) == IF timeout = 0 THEN elementWait ELSE timeout

NoResult == [kind |-> "none"]
Fulfilled(h) == [kind |-> "ok", handle |-> h]
\* new Error(`Failed to locate ${description} after ${retryAttempts} attempts: ${error.message}`)
ResolutionFailure(description, n, cause) ==
    [kind |-> "err", description |-> description, attempts |-> n, cause |-> cause]

Unstarted ==
    [pc |-> "unstarted", selector |-> "", description |-> "", timeout |-> 0,
     attempt |-> 0, element |-> NoHandle, hit |-> FALSE, result |-> NoResult,
     locates |-> 0, displayed |-> FALSE, pauses |-> <<>>, shots |-> 0,
     writes |-> 0, elapsed |-> 0, lastError |-> "none", shot |-> "none",
     direct |-> FALSE, live |-> FALSE, overtaken |-> FALSE]

\* smartWait before it is called
IdleWait ==
    [pc |-> "idle", maxAttempts |-> 0, initialDelay |-> 0, attempt |-> 0, delay |-> 0,
     pauses |-> <<>>, outcomes |-> <<>>,
     result |-> [kind |-> "none", value |-> JsUndefined, thrownAt |-> 0]]

\* no page operation called yet
NoOp ==
    [name |-> "none", pc |-> "idle", arg |-> JsUndefined, call |-> 0, remote |-> 0,
     result |-> [kind |-> "none", cause |-> "none"],
     candidate |-> 0,     \* index into possibleSelectors
     option |-> NoHandle, \* let addToListOption = null
     shown |-> FALSE,     \* history: isDisplayed() returned true for a candidate
     clicked |-> FALSE,   \* history: click() returned for a candidate
     finds |-> <<>>,      \* history: the findElement calls made by this invocation
     logs |-> <<>>,       \* history: the success flags given to logStep
     error |-> NoResult]  \* the error object thrown to the calling step

\* findElementWithRetry before it is called; lastError is declared and not
\* assigned
IdleRetry ==
    [pc |-> "idle", description |-> "", maxRetries |-> 0, attempt |-> 0,
     tries |-> 0, sleeps |-> <<>>, lastError |-> JsUndefined, result |-> NoResult]

\* the World before the Before hook has run: no field is assigned
NoWorld ==
    [variant |-> "none", pc |-> "none", driver |-> FALSE, scenarioFailed |-> JsUndefined,
     results |-> <<>>,    \* history: the result.status values given to AfterStep
     environment |-> JsUndefined, \* history: process.env.BROWSERSTACK as After read it
     events |-> <<>>,     \* history: the remote calls the After hook has attempted
     caught |-> <<>>,     \* history: those of them that threw
     status |-> "none",   \* history: the status handed to setSessionStatus
     escaped |-> FALSE]   \* history: the After hook ended by throwing

\* process.env with none of the variables set
NoEnv ==
    [BROWSERSTACK |-> JsUndefined, BROWSERSTACK_USERNAME |-> JsUndefined,
     BROWSERSTACK_ACCESS_KEY |-> JsUndefined]

\* getCapabilities not called yet
NoCapsCall ==
    [kind |-> "none", options |-> <<>>, environment |-> JsUndefined, key |-> "",
     value |-> [id |-> 0, platformName |-> "", sessionName |-> "", deviceName |-> ""],
     message |-> <<>>,
     built |-> FALSE,      \* history: the call built a capabilities object
     validated |-> FALSE,  \* history: the call ran validateEnvironment
     count |-> 0,          \* history: calls made so far
     builds |-> 0,         \* history: objects built so far
     returned |-> <<>>]    \* history: the calls that returned, with their object

NoBatch ==
    [state |-> "none", members |-> <<>>, result |-> NoResult, by |-> 0,
     configs |-> <<>>, completed |-> <<>>]

Init ==
    /\ elementCache = EmptyCache
    /\ performanceMetrics = [elementLookups |-> 0, cacheHits |-> 0, totalWaitTime |-> 0]
    /\ calls = [c \in CallIds |-> Unstarted]
    /\ batch = NoBatch
    /\ justCleared = FALSE
    /\ sw = IdleWait
    /\ op = NoOp
    /\ readingListName = JsUndefined
    /\ fr = IdleRetry
    /\ world = NoWorld
    /\ configCache = EmptyCache
    /\ env = NoEnv
    /\ capsCall = NoCapsCall

Range(seq) == { seq[i] : i \in DOMAIN seq }

\* ------------------------------------------------------------ findElement
\* findElement without the cache check: every call goes to the remote session
EnterFindElementNoCache(cache, selector, description, timeout) ==
    [Unstarted EXCEPT !.pc = "locate", !.selector = selector,
                      !.description = description, !.timeout = timeout,
                      !.attempt = 1, !.locates = 1]

\* lines 69-86: the part of findElement that runs before its first await.
\* A hit returns the cached handle; a miss issues driver.$ for attempt 1.
EnterFindElement(cache, selector, description, timeout) ==
    IF CacheHas(cache, cacheKey(selector, description))
    THEN [Unstarted EXCEPT !.pc = "done", !.selector = selector,
                           !.description = description, !.timeout = timeout,
                           !.hit = TRUE,
                           !.result = Fulfilled(CacheGet(cache, cacheKey(selector, description)))]
    ELSE [Unstarted EXCEPT !.pc = "locate", !.selector = selector,
                           !.description = description, !.timeout = timeout,
                           !.attempt = 1, !.locates = 1]

\* counters that take every call for a hit
EnterMetricsAlwaysHit(pm, cache, selector, description) ==
    [pm EXCEPT !.elementLookups = @ + 1, !.cacheHits = @ + 1]

\* lines 70 and 74: elementLookups++ always, cacheHits++ on a hit
EnterMetrics(pm, cache, selector, description) ==
    [pm EXCEPT !.elementLookups = @ + 1,
               !.cacheHits = IF CacheHas(cache, cacheKey(selector, description))
                             THEN @ + 1 ELSE @]

Min(a, b) == IF a <= b THEN a ELSE b

\* min(1000 * 2^(k-1), 5000): the capped exponential schedule
CappedExponential(k) == Min(1000 * 2^(k - 1), 5000)

\* line 121: the pause issued after a failed attempt that is not the last
pauseDelay(attempt) == retryDelay

\* the catch block giving up one attempt early
CatchOffByOne(rec, cause) ==
    IF rec.attempt >= retryAttempts - 1
    THEN [rec EXCEPT !.pc = "shot", !.lastError = cause, !.element = NoHandle,
                     !.shots = @ + 1]
    ELSE [rec EXCEPT !.pc = "pause", !.lastError = cause, !.element = NoHandle,
                     !.pauses = Append(@, pauseDelay(rec.attempt))]

\* the catch block taking a screenshot after every failed attempt
CatchShootsAlways(rec, cause) ==
    IF rec.attempt = retryAttempts
    THEN [rec EXCEPT !.pc = "shot", !.lastError = cause, !.element = NoHandle,
                     !.shots = @ + 1]
    ELSE [rec EXCEPT !.pc = "pause", !.lastError = cause, !.element = NoHandle,
                     !.shots = @ + 1,
                     !.pauses = Append(@, pauseDelay(rec.attempt))]

\* a catch block that pauses after the last attempt instead of throwing
CatchNeverThrows(rec, cause) ==
    [rec EXCEPT !.pc = "pause", !.lastError = cause, !.element = NoHandle,
                !.pauses = Append(@, pauseDelay(rec.attempt))]

\* lines 102-121: the catch block, up to its await (saveScreenshot or pause)
Catch(rec, cause) ==
    IF rec.attempt = retryAttempts
    THEN [rec EXCEPT !.pc = "shot", !.lastError = cause, !.element = NoHandle,
                     !.shots = @ + 1]
    ELSE [rec EXCEPT !.pc = "pause", !.lastError = cause, !.element = NoHandle,
                     !.pauses = Append(@, pauseDelay(rec.attempt))]

\* --------------------------------------------------- findElementsParallel
\* Promise.all over the members: it rejects with the first rejection and
\* fulfils, in input order, once every member is fulfilled.
\* a join that hands the handles back in reverse input order
SettleReversed(b, cs) ==
    IF b.state # "pending" THEN b
    ELSE IF \A i \in DOMAIN b.members : cs[b.members[i]].result.kind = "ok"
         THEN [b EXCEPT !.state = "resolved",
                        !.result = [kind |-> "array",
                                    handles |-> [i \in DOMAIN b.members |->
                                       cs[b.members[Len(b.members) + 1 - i]].result.handle]]]
         ELSE b

Settle(b, cs) ==
    IF b.state # "pending" THEN b
    ELSE IF \A i \in DOMAIN b.members : cs[b.members[i]].result.kind = "ok"
         THEN [b EXCEPT !.state = "resolved",
                        !.result = [kind |-> "array",
                                    handles |-> [i \in DOMAIN b.members |->
                                                   cs[b.members[i]].result.handle]]]
         ELSE b

\* history only: the positions of the members of the batch, in the order in
\* which their findElement calls settled
Completed(b, c) ==
    IF c \in Range(b.members)
    THEN [b EXCEPT !.completed = Append(@, c - b.members[1] + 1)]
    ELSE b

\* a join that swallows the rejection of a member
RejectSwallowed(b, c, err) == b

Reject(b, c, err) ==
    IF b.state = "pending" /\ c \in Range(b.members)
    THEN [b EXCEPT !.state = "rejected", !.result = [err EXCEPT !.kind = "err"], !.by = c]
    ELSE b

\* Every caller in the suite awaits findElement and findElementsParallel, so a
\* new call starts only when the previous direct call has returned or thrown
\* and the previous batch has settled.  The members of a rejected batch that
\* are still in flight keep running.
CallerFree ==
    /\ batch.state # "pending"
    /\ \A c \in CallIds : calls[c].direct => calls[c].pc = "done"

\* async findElement(selector, description, timeout = null), called directly
FindElement(selector, description, timeout) ==
    /\ CallerFree
    /\ performanceMetrics.elementLookups < MaxLookups
    /\ LET c == performanceMetrics.elementLookups + 1 IN
       /\ calls' = [calls EXCEPT ![c] =
                       [EnterFindElement(elementCache, selector, description, timeout)
                          EXCEPT !.direct = TRUE]]
       /\ performanceMetrics' = EnterMetrics(performanceMetrics, elementCache,
                                             selector, description)
    /\ justCleared' = FALSE
    /\ UNCHANGED <<sw, op, readingListName, fr, world, configCache, env, capsCall>>
    /\ UNCHANGED <<elementCache, batch>>

\* the element is cached as soon as it is located, before the visibility wait
LocateOkCachesEarly(c) ==
    /\ calls[c].pc = "locate"
    /\ elementCache' = CacheSet(elementCache,
                                cacheKey(calls[c].selector, calls[c].description),
                                Handle(c, calls[c].attempt))
    /\ calls' = [calls EXCEPT ![c].pc = "wait",
                              ![c].element = Handle(c, calls[c].attempt)]
    /\ justCleared' = FALSE
    /\ UNCHANGED <<sw, op, readingListName, fr, world, configCache, env, capsCall>>
    /\ UNCHANGED <<performanceMetrics, batch>>

\* const element = await this.driver.$(selector) returns an element object
LocateOk(c) ==
    /\ calls[c].pc = "locate"
    /\ calls' = [calls EXCEPT ![c].pc = "wait",
                              ![c].element = Handle(c, calls[c].attempt)]
    /\ justCleared' = FALSE
    /\ UNCHANGED <<sw, op, readingListName, fr, world, configCache, env, capsCall>>
    /\ UNCHANGED <<elementCache, performanceMetrics, batch>>

\* driver.$ throws: control passes to the catch block
LocateFail(c) ==
    /\ calls[c].pc = "locate"
    /\ calls' = [calls EXCEPT ![c] = Catch(calls[c], "locate")]
    /\ justCleared' = FALSE
    /\ UNCHANGED <<sw, op, readingListName, fr, world, configCache, env, capsCall>>
    /\ UNCHANGED <<elementCache, performanceMetrics, batch>>

\* the success path without its return: the loop goes on to the next attempt
WaitOkNoReturn(c) ==
    /\ calls[c].pc = "wait"
    /\ elementCache' = CacheSet(elementCache,
                                cacheKey(calls[c].selector, calls[c].description),
                                calls[c].element)
    /\ performanceMetrics' = [performanceMetrics EXCEPT
                                 !.totalWaitTime = @ + calls[c].elapsed]
    /\ calls' = [calls EXCEPT ![c] =
                    IF calls[c].attempt + 1 <= retryAttempts
                    THEN [calls[c] EXCEPT !.pc = "locate", !.attempt = @ + 1,
                                          !.locates = @ + 1, !.displayed = TRUE,
                                          !.live = TRUE, !.writes = @ + 1]
                    ELSE [calls[c] EXCEPT !.pc = "done", !.displayed = TRUE,
                                          !.live = TRUE, !.writes = @ + 1,
                                          !.result = Fulfilled(calls[c].element)]]
    /\ batch' = Settle(batch, calls')
    /\ justCleared' = FALSE
    /\ UNCHANGED <<sw, op, readingListName, fr, world, configCache, env, capsCall>>

\* lines 93-100: waitForDisplayed returned; cache, record the time, return.
\* duration = Date.now() - startTime is the time the call has spent in its
\* pauses and in the waits that timed out; a remote call that returns, or
\* that throws at once, is taken to last 0 ms.
WaitOk(c) ==
    /\ calls[c].pc = "wait"
    /\ elementCache' = CacheSet(elementCache,
                                cacheKey(calls[c].selector, calls[c].description),
                                calls[c].element)
    /\ performanceMetrics' = [performanceMetrics EXCEPT
                                 !.totalWaitTime = @ + calls[c].elapsed]
    /\ calls' = [calls EXCEPT ![c].pc = "done",
                              ![c].displayed = TRUE,
                              ![c].live = TRUE,
                              ![c].writes = @ + 1,
                              ![c].result = Fulfilled(calls[c].element)]
    /\ batch' = Settle(Completed(batch, c), calls')
    /\ justCleared' = FALSE
    /\ UNCHANGED <<sw, op, readingListName, fr, world, configCache, env, capsCall>>

\* waitForDisplayed threw (the element was not displayed within actualTimeout)
WaitFail(c) ==
    /\ calls[c].pc = "wait"
    /\ calls' = [calls EXCEPT ![c] = Catch(calls[c], "display")]
    /\ justCleared' = FALSE
    /\ UNCHANGED <<sw, op, readingListName, fr, world, configCache, env, capsCall>>
    /\ UNCHANGED <<elementCache, performanceMetrics, batch>>

\* waitForDisplayed threw its timeoutMsg once actualTimeout ms had gone by
WaitTimesOut(c) ==
    /\ calls[c].pc = "wait"
    /\ calls' = [calls EXCEPT ![c] =
                    Catch([calls[c] EXCEPT !.elapsed = @ + actualTimeout(calls[c].timeout)],
                          "timeout")]
    /\ justCleared' = FALSE
    /\ UNCHANGED <<sw, op, readingListName, fr, world, configCache, env, capsCall>>
    /\ UNCHANGED <<elementCache, performanceMetrics, batch>>

\* a loop that reads startTime anew at every attempt
PauseDoneRestartsClock(c) ==
    /\ calls[c].pc = "pause"
    /\ calls' = [calls EXCEPT ![c] =
                    [calls[c] EXCEPT !.pc = "locate", !.attempt = @ + 1,
                                     !.locates = @ + 1, !.elapsed = 0]]
    /\ justCleared' = FALSE
    /\ UNCHANGED <<sw, op, readingListName, fr, world, configCache, env, capsCall>>
    /\ UNCHANGED <<elementCache, performanceMetrics, batch>>

\* driver.pause returned: attempt++ and the next iteration issues driver.$
PauseDone(c) ==
    /\ calls[c].pc = "pause"
    /\ calls' = [calls EXCEPT ![c] =
                    IF calls[c].attempt + 1 <= retryAttempts
                    THEN [calls[c] EXCEPT !.pc = "locate", !.attempt = @ + 1,
                                          !.locates = @ + 1,
                                          !.elapsed = @ + calls[c].pauses[Len(calls[c].pauses)]]
                    ELSE [calls[c] EXCEPT !.pc = "done", !.attempt = @ + 1,
                                          !.result = [kind |-> "undefined"]]]
    /\ justCleared' = FALSE
    /\ UNCHANGED <<sw, op, readingListName, fr, world, configCache, env, capsCall>>
    /\ UNCHANGED <<elementCache, performanceMetrics, batch>>

\* a failure that also ends the lookups of the siblings still in flight
ThrowFailureCancelsSiblings(c, shot) ==
    /\ calls[c].pc = "shot"
    /\ calls' = [x \in CallIds |->
                   IF x = c
                   THEN [calls[c] EXCEPT !.pc = "done", !.shot = shot,
                                         !.result = ResolutionFailure(calls[c].description,
                                                        retryAttempts, calls[c].lastError)]
                   ELSE IF calls[x].pc \notin {"unstarted", "done"}
                           /\ {c, x} \subseteq Range(batch.members)
                   THEN [calls[x] EXCEPT !.pc = "done", !.result = [kind |-> "cancelled"]]
                   ELSE calls[x]]
    /\ batch' = Reject(Completed(batch, c), c, calls'[c].result)
    /\ justCleared' = FALSE
    /\ UNCHANGED <<sw, op, readingListName, fr, world, configCache, env, capsCall>>
    /\ UNCHANGED <<elementCache, performanceMetrics>>

\* lines 110-117: saveScreenshot returned or threw; either way the
\* resolution failure is thrown
ThrowFailure(c, shot) ==
    /\ calls[c].pc = "shot"
    /\ calls' = [calls EXCEPT ![c].pc = "done", ![c].shot = shot,
                              ![c].result = ResolutionFailure(calls[c].description,
                                                retryAttempts, calls[c].lastError)]
    /\ batch' = Reject(Completed(batch, c), c, calls'[c].result)
    /\ justCleared' = FALSE
    /\ UNCHANGED <<sw, op, readingListName, fr, world, configCache, env, capsCall>>
    /\ UNCHANGED <<elementCache, performanceMetrics>>

ScreenshotSaved(c) == ThrowFailure(c, "saved")
ScreenshotFailed(c) == ThrowFailure(c, "failed")

\* elementConfigs.map(config => this.findElement(...)): the calls start one
\* after the other, in input order, before anything is awaited
RECURSIVE StartAll(_, _, _)
StartAll(configs, cs, first) ==
    IF configs = <<>> THEN cs
    ELSE StartAll(Tail(configs),
                  [cs EXCEPT ![first] = EnterFindElement(elementCache, Head(configs).selector,
                                            Head(configs).description, Head(configs).timeout)],
                  first + 1)

RECURSIVE MetricsAll(_, _)
MetricsAll(configs, pm) ==
    IF configs = <<>> THEN pm
    ELSE MetricsAll(Tail(configs),
                    EnterMetrics(pm, elementCache, Head(configs).selector,
                                 Head(configs).description))

ConfigOf(d, t) == [selector |-> d[1], description |-> d[2], timeout |-> t]
ConfigArrays ==
    UNION { [1..n -> { ConfigOf(d, t) : d \in Descriptors, t \in TimeoutArgs }]
            : n \in 0..MaxBatch }

FindElementsParallel(elementConfigs) ==
    /\ CallerFree
    /\ performanceMetrics.elementLookups + Len(elementConfigs) <= MaxLookups
    /\ LET first == performanceMetrics.elementLookups + 1 IN
       /\ calls' = StartAll(elementConfigs, calls, first)
       /\ performanceMetrics' = MetricsAll(elementConfigs, performanceMetrics)
       /\ batch' = Settle([state |-> "pending",
                           members |-> [i \in DOMAIN elementConfigs |-> first + i - 1],
                           result |-> NoResult, by |-> 0,
                           configs |-> elementConfigs,
                           completed |-> SelectSeq([i \in DOMAIN elementConfigs |-> i],
                                              LAMBDA i : calls'[first + i - 1].pc = "done")],
                          calls')
    /\ justCleared' = FALSE
    /\ UNCHANGED <<sw, op, readingListName, fr, world, configCache, env, capsCall>>
    /\ UNCHANGED elementCache

\* ------------------------------------------------------------- clearCache
\* clearCache is synchronous and is called by the same callers, between their
\* awaits: it runs when no direct call and no batch is pending, possibly while
\* members of a rejected batch are still in flight.
\* history only: no clearCache has run since call c stored its handle
\* (live); a clearCache ran while call c was in flight (overtaken)
Evict(cs) ==
    [c \in CallIds |->
        [cs[c] EXCEPT !.live = FALSE,
                      !.overtaken = @ \/ cs[c].pc \notin {"unstarted", "done"}]]

\* clearCache that reports the size but leaves the entries in place
ClearCacheKeepsEntries ==
    /\ CallerFree
    /\ calls' = Evict(calls)
    /\ justCleared' = TRUE
    /\ UNCHANGED <<sw, op, readingListName, fr, world, configCache, env, capsCall>>
    /\ UNCHANGED <<elementCache, performanceMetrics, batch>>

\* clearCache that also starts the counters afresh
ClearCacheResetsMetrics ==
    /\ CallerFree
    /\ elementCache' = EmptyCache
    /\ calls' = Evict(calls)
    /\ justCleared' = TRUE
    /\ performanceMetrics' = [elementLookups |-> performanceMetrics.elementLookups,
                              cacheHits |-> 0, totalWaitTime |-> 0]
    /\ UNCHANGED <<batch, sw, op, readingListName, fr, world, configCache, env, capsCall>>

ClearCache ==
    /\ CallerFree
    /\ elementCache' = EmptyCache
    /\ calls' = Evict(calls)
    /\ justCleared' = TRUE
    /\ UNCHANGED <<sw, op, readingListName, fr, world, configCache, env, capsCall>>
    /\ UNCHANGED <<performanceMetrics, batch>>

\* -------------------------------------------------------------- smartWait
\* truthiness of a JavaScript value
Truthy(v) ==
    CASE v.type = "string" -> Len(v.str) > 0
      [] v.type = "number" -> v.num # 0
      [] v.type = "boolean" -> v.num = 1
      [] v.type = "undefined" -> FALSE
      [] OTHER -> v # JsNull

\* throw new Error(`Condition not met after ${maxAttempts} attempts`)
ConditionTimeout == [kind |-> "timeout", value |-> JsUndefined, thrownAt |-> 0]

\* a delay that is never doubled
ConstantDelay(delay) == delay

\* line 199: delay *= 2
NextDelay(delay) == delay * 2

\* lines 181-186: the call, up to the first await of condition()
SmartWait(maxAttempts, initialDelay) ==
    /\ sw.pc \in {"idle", "done"}
    /\ sw' = IF 1 <= maxAttempts
             THEN [IdleWait EXCEPT !.pc = "condition", !.maxAttempts = maxAttempts,
                                   !.initialDelay = initialDelay, !.attempt = 1,
                                   !.delay = initialDelay]
             ELSE [IdleWait EXCEPT !.pc = "done", !.maxAttempts = maxAttempts,
                                   !.initialDelay = initialDelay, !.attempt = 1,
                                   !.delay = initialDelay, !.result = ConditionTimeout]
    /\ UNCHANGED <<elementCache, performanceMetrics, calls, batch, justCleared,
                   op, readingListName, fr, world, configCache, env, capsCall>>

\* a falsy result on the last attempt throws at once, without the pause
ConditionReturnsNoFinalPause(result) ==
    /\ sw.pc = "condition"
    /\ sw' = IF Truthy(result)
             THEN [sw EXCEPT !.pc = "done", !.outcomes = Append(@, "truthy"),
                             !.result = [kind |-> "value", value |-> result, thrownAt |-> 0]]
             ELSE IF sw.attempt = sw.maxAttempts
             THEN [sw EXCEPT !.pc = "done", !.outcomes = Append(@, "falsy"),
                             !.result = [kind |-> "timeout", value |-> JsUndefined,
                                         thrownAt |-> 0]]
             ELSE [sw EXCEPT !.pc = "pause", !.outcomes = Append(@, "falsy"),
                             !.pauses = Append(@, sw.delay)]
    /\ UNCHANGED <<elementCache, performanceMetrics, calls, batch, justCleared,
                   op, readingListName, fr, world, configCache, env, capsCall>>

\* lines 186-198: condition() returned result
ConditionReturns(result) ==
    /\ sw.pc = "condition"
    /\ sw' = IF Truthy(result)
             THEN [sw EXCEPT !.pc = "done", !.outcomes = Append(@, "truthy"),
                             !.result = [kind |-> "value", value |-> result, thrownAt |-> 0]]
             ELSE [sw EXCEPT !.pc = "pause", !.outcomes = Append(@, "falsy"),
                             !.pauses = Append(@, sw.delay)]
    /\ UNCHANGED <<elementCache, performanceMetrics, calls, batch, justCleared,
                   op, readingListName, fr, world, configCache, env, capsCall>>

\* a condition whose error is never swallowed
ConditionThrowsAtOnce ==
    /\ sw.pc = "condition"
    /\ sw' = [sw EXCEPT !.pc = "done", !.outcomes = Append(@, "threw"),
                        !.result = [kind |-> "error", value |-> JsUndefined,
                                    thrownAt |-> sw.attempt]]
    /\ UNCHANGED <<elementCache, performanceMetrics, calls, batch, justCleared,
                   op, readingListName, fr, world, configCache, env, capsCall>>

\* lines 191-198: condition() threw
ConditionThrows ==
    /\ sw.pc = "condition"
    /\ sw' = IF sw.attempt = sw.maxAttempts
             THEN [sw EXCEPT !.pc = "done", !.outcomes = Append(@, "threw"),
                             !.result = [kind |-> "error", value |-> JsUndefined,
                                         thrownAt |-> sw.attempt]]
             ELSE [sw EXCEPT !.pc = "pause", !.outcomes = Append(@, "threw"),
                             !.pauses = Append(@, sw.delay)]
    /\ UNCHANGED <<elementCache, performanceMetrics, calls, batch, justCleared,
                   op, readingListName, fr, world, configCache, env, capsCall>>

\* lines 198-202 and 184: pause returned; double the delay, next attempt or
\* the timeout error
SmartWaitPauseDone ==
    /\ sw.pc = "pause"
    /\ sw' = IF sw.attempt + 1 <= sw.maxAttempts
             THEN [sw EXCEPT !.pc = "condition", !.attempt = @ + 1,
                             !.delay = NextDelay(@)]
             ELSE [sw EXCEPT !.pc = "done", !.attempt = @ + 1, !.delay = NextDelay(@),
                             !.result = ConditionTimeout]
    /\ UNCHANGED <<elementCache, performanceMetrics, calls, batch, justCleared,
                   op, readingListName, fr, world, configCache, env, capsCall>>

NextWait ==
    \/ \E m \in MaxAttemptsArgs, d \in InitialDelayArgs : SmartWait(m, d)
    \/ \E v \in ConditionValues : ConditionReturns(v)
    \/ ConditionThrows
    \/ SmartWaitPauseDone

SpecWait == Init /\ [][NextWait]_vars

\* -------------------------------------------------------- page operations
\* this.locators.searchBox and this.locators.readingListNameInput
searchBox == "id:org.wikipedia.alpha:id/preference_languages_filter"
readingListNameInput == "id:org.wikipedia.alpha:id/text_input"

\* String.prototype.trim
Whitespace == {" ", "\t", "\n"}
RECURSIVE TrimStart(_)
TrimStart(s) ==
    IF s = <<>> THEN s
    ELSE IF Head(s) \in Whitespace THEN TrimStart(Tail(s)) ELSE s
RECURSIVE TrimEnd(_)
TrimEnd(s) ==
    IF s = <<>> THEN s
    ELSE IF s[Len(s)] \in Whitespace THEN TrimEnd(SubSeq(s, 1, Len(s) - 1)) ELSE s
Trim(s) == TrimEnd(TrimStart(s))

\* String.prototype.includes
Includes(text, part) ==
    \E i \in 0..(Len(text) - Len(part)) : SubSeq(text, i + 1, i + Len(part)) = part

\* the check of selectLanguageFromList, which has no trim() test
InvalidTextNoTrim(v) == ~Truthy(v) \/ v.type # "string"

\* lines 287 and 639:
\* !x || typeof x !== 'string' || x.trim().length === 0
InvalidText(v) == ~Truthy(v) \/ v.type # "string" \/ Len(Trim(v.str)) = 0

OpResult(kind, cause) == [kind |-> kind, cause |-> cause]

\* what getText may return after setValue(text)
ElementTexts(text) == { text, <<>>, <<"x">> \o text, <<"x">> }

\* lines 286-292 and 638-644: validation, then the call of findElement
InvokeTextOp(name, selector, description, text) ==
    /\ op.pc \in {"idle", "done"}
    /\ CallerFree
    /\ IF InvalidText(text)
       THEN /\ op' = [NoOp EXCEPT !.name = name, !.pc = "done", !.arg = text,
                                  !.result = OpResult("invalid", "must be a non-empty string")]
            /\ UNCHANGED <<elementCache, performanceMetrics, calls, batch, justCleared,
                           sw, readingListName, fr, world, configCache, env, capsCall>>
       ELSE /\ performanceMetrics.elementLookups < MaxLookups
            /\ LET c == performanceMetrics.elementLookups + 1 IN
               /\ calls' = [calls EXCEPT ![c] =
                               [EnterFindElement(elementCache, selector, description, 0)
                                  EXCEPT !.direct = TRUE]]
               /\ performanceMetrics' = EnterMetrics(performanceMetrics, elementCache,
                                                     selector, description)
               /\ op' = [NoOp EXCEPT !.name = name, !.pc = "find", !.arg = text,
                                     !.call = c]
            /\ justCleared' = FALSE
            /\ UNCHANGED <<elementCache, batch, sw, readingListName, fr, world, configCache, env, capsCall>>

EnterLanguageInSearchBox(language) ==
    InvokeTextOp("enterLanguageInSearchBox", searchBox, "Language Search Box", language)

EnterReadingListName(listName) ==
    InvokeTextOp("enterReadingListName", readingListNameInput,
                 "Reading List Name Input", listName)

\* the catch block of a page operation: logStep(false, ...) takes no
\* screenshot, then the error is thrown again
OpCatch(cause) ==
    [op EXCEPT !.pc = "done", !.result = OpResult("error", cause),
               !.logs = Append(@, FALSE)]

\* lines 292-293 and 644-645: findElement settled; clearValue() is issued
OpFindSettled ==
    /\ op.pc = "find"
    /\ op.name \in {"enterLanguageInSearchBox", "enterReadingListName"}
    /\ calls[op.call].pc = "done"
    /\ op' = IF calls[op.call].result.kind = "ok"
             THEN [op EXCEPT !.pc = "clearValue", !.remote = @ + 1]
             ELSE OpCatch("Failed to locate")
    /\ UNCHANGED <<elementCache, performanceMetrics, calls, batch, justCleared,
                   sw, readingListName, fr, world, configCache, env, capsCall>>

\* lines 293-294 and 645-646: clearValue() returned; setValue(x.trim())
OpClearValueDone ==
    /\ op.pc = "clearValue"
    /\ op' = [op EXCEPT !.pc = "setValue", !.remote = @ + 1]
    /\ UNCHANGED <<elementCache, performanceMetrics, calls, batch, justCleared,
                   sw, readingListName, fr, world, configCache, env, capsCall>>

\* lines 294-297 and 646-649: setValue() returned; getText()
OpSetValueDone ==
    /\ op.pc = "setValue"
    /\ op' = [op EXCEPT !.pc = "getText", !.remote = @ + 1]
    /\ UNCHANGED <<elementCache, performanceMetrics, calls, batch, justCleared,
                   sw, readingListName, fr, world, configCache, env, capsCall>>

\* the list name is stored before the entered text is verified
OpGetTextDoneStoresFirst(enteredText) ==
    /\ op.pc = "getText"
    /\ op.name \in {"enterLanguageInSearchBox", "enterReadingListName"}
    /\ op' = IF (op.name = "enterReadingListName" /\ ~Truthy(JsString(enteredText)))
                \/ ~Includes(enteredText, Trim(op.arg.str))
             THEN OpCatch("Failed to enter text")
             ELSE [op EXCEPT !.pc = "logStep", !.remote = @ + 1]
    /\ readingListName' = IF op.name = "enterReadingListName"
                           THEN JsString(Trim(op.arg.str))
                           ELSE readingListName
    /\ UNCHANGED <<elementCache, performanceMetrics, calls, batch, justCleared, sw, fr, world, configCache, env, capsCall>>

\* lines 297-302 and 649-656: getText() returned enteredText; the text is
\* verified, the list name stored, and logStep takes its screenshot
OpGetTextDone(enteredText) ==
    /\ op.pc = "getText"
    /\ op.name \in {"enterLanguageInSearchBox", "enterReadingListName"}
    /\ IF (op.name = "enterReadingListName" /\ ~Truthy(JsString(enteredText)))
          \/ ~Includes(enteredText, Trim(op.arg.str))
       THEN /\ op' = OpCatch("Failed to enter text")
            /\ UNCHANGED readingListName
       ELSE /\ op' = [op EXCEPT !.pc = "logStep", !.remote = @ + 1]
            /\ readingListName' = IF op.name = "enterReadingListName"
                                  THEN JsString(Trim(op.arg.str))
                                  ELSE readingListName
    /\ UNCHANGED <<elementCache, performanceMetrics, calls, batch, justCleared, sw, fr, world, configCache, env, capsCall>>

\* clearValue, setValue or getText threw
OpRemoteFails ==
    /\ op.pc \in {"clearValue", "setValue", "getText"}
    /\ op.name \in {"enterLanguageInSearchBox", "enterReadingListName"}
    /\ op' = OpCatch("remote")
    /\ UNCHANGED <<elementCache, performanceMetrics, calls, batch, justCleared,
                   sw, readingListName, fr, world, configCache, env, capsCall>>

\* lines 137-146: the screenshot of logStep was saved or failed; the
\* operation returns
OpLogStepDone ==
    /\ op.pc = "logStep"
    /\ op' = [op EXCEPT !.pc = "done", !.result = OpResult("ok", "none"),
                        !.logs = Append(@, TRUE)]
    /\ UNCHANGED <<elementCache, performanceMetrics, calls, batch, justCleared,
                   sw, readingListName, fr, world, configCache, env, capsCall>>

NextPage ==
    \/ \E v \in ArgValues : EnterLanguageInSearchBox(v)
    \/ \E v \in ArgValues : EnterReadingListName(v)
    \/ OpFindSettled
    \/ OpClearValueDone
    \/ OpSetValueDone
    \/ \E v \in ArgValues : OpGetTextDone(v.str)
    \/ OpRemoteFails
    \/ OpLogStepDone
    \/ \E c \in CallIds : LocateOk(c)
    \/ \E c \in CallIds : LocateFail(c)
    \/ \E c \in CallIds : WaitOk(c)
    \/ \E c \in CallIds : WaitFail(c)
    \/ \E c \in CallIds : PauseDone(c)
    \/ \E c \in CallIds : ScreenshotSaved(c)
    \/ \E c \in CallIds : ScreenshotFailed(c)

SpecPage == Init /\ [][NextPage]_vars

\* ------------------------------------------------- navigating operations
\* this.locators
eclipseIcon == "id:org.wikipedia.alpha:id/menu_overflow_button"
settingsOption == "id:org.wikipedia.alpha:id/explore_overflow_settings"
wikiHeaderLogo == "id:org.wikipedia.alpha:id/single_fragment_toolbar_wordmark"
changeLanguageOption == "-android uiautomator:RelativeLayout.instance(0)"
readingListButton == "-android uiautomator:org.wikipedia.alpha:id/icon.instance(1)"
newsArticle == "-android uiautomator:LinearLayout.instance(6)"
navigateUp == "~Navigate up"

\* the operations that wait, with smartWait, for the next screen after the click
WaitingOps == {"clickEclipseIcon", "clickChangeLanguage", "clickOnNewsArticle"}
NavOps == WaitingOps \cup {"navigateToSettings", "navigateToReadingListSection",
                           "verifyWikiHeaderLogo"}

\* const x = await this.findElement(selector, description) inside an operation
OpFind(o, selector, description) ==
    /\ CallerFree
    /\ performanceMetrics.elementLookups < MaxLookups
    /\ LET c == performanceMetrics.elementLookups + 1 IN
       /\ calls' = [calls EXCEPT ![c] =
                       [EnterFindElement(elementCache, selector, description, 0)
                          EXCEPT !.direct = TRUE]]
       /\ performanceMetrics' = EnterMetrics(performanceMetrics, elementCache,
                                             selector, description)
       /\ op' = [o EXCEPT !.pc = "find", !.call = c, !.finds = Append(@, c)]
    /\ justCleared' = FALSE
    /\ UNCHANGED <<elementCache, batch, sw, readingListName, fr, world, configCache, env, capsCall>>

\* the call of an operation, up to its first await
InvokeNavOp(name, selector, description) ==
    /\ op.pc \in {"idle", "done"}
    /\ OpFind([NoOp EXCEPT !.name = name], selector, description)

ClickEclipseIcon == InvokeNavOp("clickEclipseIcon", eclipseIcon, "Eclipse Icon")
NavigateToSettings == InvokeNavOp("navigateToSettings", settingsOption, "Settings Option")
ClickChangeLanguage ==
    InvokeNavOp("clickChangeLanguage", changeLanguageOption, "Change Language Option")
VerifyWikiHeaderLogo ==
    InvokeNavOp("verifyWikiHeaderLogo", wikiHeaderLogo, "Wikipedia Header Logo")
ClickOnNewsArticle == InvokeNavOp("clickOnNewsArticle", newsArticle, "News Article")
NavigateToReadingListSection ==
    InvokeNavOp("navigateToReadingListSection", navigateUp, "Navigate Up Button")

\* the error caught by the catch block is thrown again after logStep(false, ...)
OpRethrow(cause, error) == [OpCatch(cause) EXCEPT !.error = error]

\* an operation that calls findElement again when it has failed
NavFindSettledRetries ==
    /\ op.name \in NavOps
    /\ op.pc = "find"
    /\ calls[op.call].pc = "done"
    /\ IF calls[op.call].result.kind = "ok"
       THEN /\ op' = [op EXCEPT !.pc = IF op.name = "verifyWikiHeaderLogo"
                                       THEN "isDisplayed" ELSE "click",
                                !.remote = @ + 1]
            /\ UNCHANGED <<elementCache, performanceMetrics, calls, batch, justCleared,
                           sw, readingListName, fr, world, configCache, env, capsCall>>
       ELSE IF performanceMetrics.elementLookups < MaxLookups
       THEN OpFind(op, calls[op.call].selector, calls[op.call].description)
       ELSE /\ op' = OpRethrow("Failed to locate", calls[op.call].result)
            /\ UNCHANGED <<elementCache, performanceMetrics, calls, batch, justCleared,
                           sw, readingListName, fr, world, configCache, env, capsCall>>

\* findElement settled: element.click() (isDisplayed() for the logo) is
\* issued, or the failure goes to the catch block
NavFindSettled ==
    /\ op.name \in NavOps
    /\ op.pc = "find"
    /\ calls[op.call].pc = "done"
    /\ op' = IF calls[op.call].result.kind = "ok"
             THEN [op EXCEPT !.pc = IF op.name = "verifyWikiHeaderLogo"
                                     THEN "isDisplayed" ELSE "click",
                              !.remote = @ + 1]
             ELSE OpRethrow("Failed to locate", calls[op.call].result)
    /\ UNCHANGED <<elementCache, performanceMetrics, calls, batch, justCleared,
                   sw, readingListName, fr, world, configCache, env, capsCall>>

\* the click is the last one of an operation that calls clearCache()
ClearsCache(o) ==
    \/ o.name = "navigateToSettings"
    \/ o.name = "navigateToReadingListSection" /\ Len(o.finds) = 2

\* click() returned: smartWait(condition) is called with its default
\* arguments, or clearCache() and then logStep
NavClickDone ==
    /\ op.pc = "click"
    /\ IF ClearsCache(op)
       THEN /\ elementCache' = EmptyCache
            /\ calls' = Evict(calls)
            /\ justCleared' = TRUE
            /\ op' = [op EXCEPT !.pc = "logStep", !.remote = @ + 1]
            /\ UNCHANGED sw
       ELSE /\ sw' = [IdleWait EXCEPT !.pc = "condition",
                                      !.maxAttempts = DefaultMaxAttempts,
                                      !.initialDelay = DefaultInitialDelay,
                                      !.attempt = 1, !.delay = DefaultInitialDelay]
            /\ op' = [op EXCEPT !.pc = "smartWait"]
            /\ UNCHANGED <<elementCache, calls, justCleared>>
    /\ UNCHANGED <<performanceMetrics, batch, readingListName, fr, world, configCache, env, capsCall>>

\* click() or isDisplayed() threw
NavRemoteFails ==
    /\ op.pc \in {"click", "isDisplayed"}
    /\ op' = OpRethrow("remote", [kind |-> "err", description |-> "remote"])
    /\ UNCHANGED <<elementCache, performanceMetrics, calls, batch, justCleared,
                   sw, readingListName, fr, world, configCache, env, capsCall>>

\* smartWait settled: logStep(true, ...) or the catch block
NavSmartWaitSettled ==
    /\ op.pc = "smartWait"
    /\ sw.pc = "done"
    /\ op' = IF sw.result.kind = "value"
             THEN [op EXCEPT !.pc = IF op.name = "navigateToReadingListSection"
                                     THEN "logStepBack" ELSE "logStep",
                              !.remote = @ + 1]
             ELSE OpRethrow("Condition not met", [kind |-> "err", description |-> "timeout"])
    /\ UNCHANGED <<elementCache, performanceMetrics, calls, batch, justCleared,
                   sw, readingListName, fr, world, configCache, env, capsCall>>

\* lines 712-715: logStep(true, "Navigated back to main page") returned; the
\* reading list button is looked up
NavLogStepBackDone ==
    /\ op.pc = "logStepBack"
    /\ OpFind([op EXCEPT !.logs = Append(@, TRUE)], readingListButton,
              "Reading List Section")

\* lines 334-336: isDisplayed() returned; logStep(isDisplayed, ...)
NavIsDisplayedDone(isDisplayed) ==
    /\ op.pc = "isDisplayed"
    /\ op' = [op EXCEPT !.pc = IF isDisplayed THEN "logStep" ELSE "logStepHidden",
                        !.remote = @ + 1]
    /\ UNCHANGED <<elementCache, performanceMetrics, calls, batch, justCleared,
                   sw, readingListName, fr, world, configCache, env, capsCall>>

\* lines 336-343: logStep(false, ...) returned; the logo is not displayed
NavLogStepHiddenDone ==
    /\ op.pc = "logStepHidden"
    /\ op' = [OpRethrow("not displayed", [kind |-> "err", description |-> "not displayed"])
                EXCEPT !.logs = <<FALSE>> \o @]
    /\ UNCHANGED <<elementCache, performanceMetrics, calls, batch, justCleared,
                   sw, readingListName, fr, world, configCache, env, capsCall>>

NextNav ==
    \/ ClickEclipseIcon
    \/ NavigateToSettings
    \/ ClickChangeLanguage
    \/ VerifyWikiHeaderLogo
    \/ ClickOnNewsArticle
    \/ NavigateToReadingListSection
    \/ NavFindSettled
    \/ NavClickDone
    \/ NavRemoteFails
    \/ NavSmartWaitSettled
    \/ NavLogStepBackDone
    \/ \E b \in BOOLEAN : NavIsDisplayedDone(b)
    \/ NavLogStepHiddenDone
    \/ OpLogStepDone
    \/ \E b \in BOOLEAN : ConditionReturns(JsBoolean(b))
    \/ SmartWaitPauseDone
    \/ \E c \in CallIds : LocateOk(c)
    \/ \E c \in CallIds : LocateFail(c)
    \/ \E c \in CallIds : WaitOk(c)
    \/ \E c \in CallIds : WaitFail(c)
    \/ \E c \in CallIds : PauseDone(c)
    \/ \E c \in CallIds : ScreenshotSaved(c)
    \/ \E c \in CallIds : ScreenshotFailed(c)

SpecNav == Init /\ [][NextNav]_vars

\* --------------------------------------------------- findElementWithRetry
\* the error of a failed driver.wait, told apart by attempt and by wait
WaitError(attempt, what) == [type |-> "Error", at |-> attempt, what |-> what]

\* Math.min(1000 * Math.pow(2, attempt - 1), 5000)
backoffDelay(attempt) == Min(1000 * 2^(attempt - 1), 5000)

\* the for statement: its test, then the body up to the first await or,
\* past the loop, the throw.  Reading lastError.message of undefined raises a
\* TypeError instead of the Error the throw statement builds.
LoopTest(r, attempt) ==
    IF attempt <= r.maxRetries
    THEN [r EXCEPT !.pc = "located", !.attempt = attempt, !.tries = @ + 1]
    ELSE [r EXCEPT !.pc = "done", !.attempt = attempt,
                   !.result = IF r.lastError = JsUndefined
                              THEN [kind |-> "TypeError"]
                              ELSE [kind |-> "err", description |-> r.description,
                                    attempts |-> r.maxRetries,
                                    message |-> r.lastError]]

FindElementWithRetry(description, maxRetries) ==
    /\ fr.pc \in {"idle", "done"}
    /\ fr' = LoopTest([IdleRetry EXCEPT !.description = description,
                                        !.maxRetries = maxRetries], 1)
    /\ UNCHANGED <<elementCache, performanceMetrics, calls, batch, justCleared,
                   sw, op, readingListName,
                   world, configCache, env, capsCall>>

\* a catch block that sleeps after the last attempt too
RetryCatchSleepsAlways(r, error) ==
    [r EXCEPT !.pc = "sleep", !.lastError = error,
              !.sleeps = Append(@, backoffDelay(r.attempt))]

\* the catch block, up to driver.sleep or, on the last attempt, on to the
\* loop test
RetryCatch(r, error) ==
    IF r.attempt < r.maxRetries
    THEN [r EXCEPT !.pc = "sleep", !.lastError = error,
                   !.sleeps = Append(@, backoffDelay(r.attempt))]
    ELSE LoopTest([r EXCEPT !.lastError = error], r.attempt + 1)

\* driver.wait(until.elementLocated(locator)) returned the element
LocatedOk ==
    /\ fr.pc = "located"
    /\ fr' = [fr EXCEPT !.pc = "visible"]
    /\ UNCHANGED <<elementCache, performanceMetrics, calls, batch, justCleared,
                   sw, op, readingListName,
                   world, configCache, env, capsCall>>

\* driver.wait(until.elementLocated(locator)) timed out
LocatedFails ==
    /\ fr.pc = "located"
    /\ fr' = RetryCatch(fr, WaitError(fr.attempt, "not found"))
    /\ UNCHANGED <<elementCache, performanceMetrics, calls, batch, justCleared,
                   sw, op, readingListName,
                   world, configCache, env, capsCall>>

\* driver.wait(until.elementIsVisible(element)) returned: return element
VisibleOk ==
    /\ fr.pc = "visible"
    /\ fr' = [fr EXCEPT !.pc = "done", !.result = [kind |-> "ok", attempt |-> fr.attempt]]
    /\ UNCHANGED <<elementCache, performanceMetrics, calls, batch, justCleared,
                   sw, op, readingListName,
                   world, configCache, env, capsCall>>

\* driver.wait(until.elementIsVisible(element)) timed out
VisibleFails ==
    /\ fr.pc = "visible"
    /\ fr' = RetryCatch(fr, WaitError(fr.attempt, "not visible"))
    /\ UNCHANGED <<elementCache, performanceMetrics, calls, batch, justCleared,
                   sw, op, readingListName,
                   world, configCache, env, capsCall>>

\* driver.sleep(delay) returned: attempt++ and the loop test
SleepDone ==
    /\ fr.pc = "sleep"
    /\ fr' = LoopTest(fr, fr.attempt + 1)
    /\ UNCHANGED <<elementCache, performanceMetrics, calls, batch, justCleared,
                   sw, op, readingListName,
                   world, configCache, env, capsCall>>

NextRetry ==
    \/ \E d \in RetryDescriptions, m \in MaxRetriesArgs : FindElementWithRetry(d, m)
    \/ LocatedOk
    \/ LocatedFails
    \/ VisibleOk
    \/ VisibleFails
    \/ SleepDone

SpecRetry == Init /\ [][NextRetry]_vars

\* ------------------------------------------- fallback-selector operations
\* this.locators.moreOptionsIcon and this.locators.addToReadingList
moreOptionsIcon == "~More options"
addToReadingList == "-android uiautomator:text(\"Add to Reading List\")"

\* const possibleSelectors = [...] of clickOnMoreOptionsIcon
MoreOptionsSelectors ==
    << addToReadingList,
       "-android uiautomator:new UiSelector().textContains(\"Add to\")",
       "-android uiautomator:new UiSelector().textContains(\"Reading\")",
       "//*[@text=\"Add to Reading List\"]",
       "//*[@text=\"Add to reading list\"]" >>

\* const possibleSelectors = [...] of clickOnAddToReadingListOption
AddToListSelectors ==
    MoreOptionsSelectors
    \o << "//*[contains(@text, \"Add to Reading List\")]",
          "//*[contains(@text, \"Add to reading list\")]" >>

possibleSelectors(o) ==
    IF o.name = "clickOnMoreOptionsIcon" THEN MoreOptionsSelectors ELSE AddToListSelectors

\* the element object driver.$ returns for candidate i
OptionElement(i) == Handle(0, i)

\* lines 580-584 and 621-627: past the loop; the test of the variable, then
\* logStep (after a pause in clickOnAddToReadingListOption)
AfterLoop(o) ==
    IF o.option = NoHandle
    THEN [o EXCEPT !.pc = "done",
                   !.result = OpResult("error", "Could not find Add to Reading List option"),
                   !.error = [kind |-> "err", description |-> "Could not find"],
                   !.logs = Append(@, FALSE)]
    ELSE [o EXCEPT !.pc = IF o.name = "clickOnMoreOptionsIcon" THEN "logStep"
                          ELSE "pauseDialog"]

\* the for statement going on to the next selector, or past the loop
NextSelector(o) ==
    IF o.candidate < Len(possibleSelectors(o))
    THEN [o EXCEPT !.pc = "locateOption", !.candidate = @ + 1]
    ELSE AfterLoop(o)

\* line 552: clickOnMoreOptionsIcon, up to its first await
ClickOnMoreOptionsIcon ==
    /\ op.pc \in {"idle", "done"}
    /\ OpFind([NoOp EXCEPT !.name = "clickOnMoreOptionsIcon"], moreOptionsIcon,
              "More Options Icon")

\* lines 552-553: findElement settled; click() is issued
MoreFindSettled ==
    /\ op.name = "clickOnMoreOptionsIcon"
    /\ op.pc = "find"
    /\ calls[op.call].pc = "done"
    /\ op' = IF calls[op.call].result.kind = "ok"
             THEN [op EXCEPT !.pc = "clickIcon"]
             ELSE OpRethrow("Failed to locate", calls[op.call].result)
    /\ UNCHANGED <<elementCache, performanceMetrics, calls, batch, justCleared,
                   sw, readingListName, fr, world, configCache, env, capsCall>>

\* lines 553-556: click() returned; driver.pause(2000)
MoreClickDone ==
    /\ op.pc = "clickIcon"
    /\ op' = [op EXCEPT !.pc = "pauseMenu"]
    /\ UNCHANGED <<elementCache, performanceMetrics, calls, batch, justCleared,
                   sw, readingListName, fr, world, configCache, env, capsCall>>

\* click() on the icon threw
MoreClickFails ==
    /\ op.pc = "clickIcon"
    /\ op' = OpRethrow("remote", [kind |-> "err", description |-> "remote"])
    /\ UNCHANGED <<elementCache, performanceMetrics, calls, batch, justCleared,
                   sw, readingListName, fr, world, configCache, env, capsCall>>

\* lines 556-569: the pause returned; the loop starts with the first selector
MorePauseDone ==
    /\ op.pc = "pauseMenu"
    /\ op' = [op EXCEPT !.pc = "locateOption", !.candidate = 1]
    /\ UNCHANGED <<elementCache, performanceMetrics, calls, batch, justCleared,
                   sw, readingListName, fr, world, configCache, env, capsCall>>

\* lines 594-610: clickOnAddToReadingListOption, up to its first await
ClickOnAddToReadingListOption ==
    /\ op.pc \in {"idle", "done"}
    /\ op' = [NoOp EXCEPT !.name = "clickOnAddToReadingListOption",
                          !.pc = "locateOption", !.candidate = 1]
    /\ UNCHANGED <<elementCache, performanceMetrics, calls, batch, justCleared,
                   sw, readingListName, fr, world, configCache, env, capsCall>>

\* lines 570 and 610: addToListOption = await this.driver.$(selector)
OptionLocated ==
    /\ op.pc = "locateOption"
    /\ op' = [op EXCEPT !.pc = "isDisplayed", !.option = OptionElement(op.candidate)]
    /\ UNCHANGED <<elementCache, performanceMetrics, calls, batch, justCleared,
                   sw, readingListName, fr, world, configCache, env, capsCall>>

\* lines 571-574 and 611-615: isDisplayed() returned
OptionIsDisplayed(displayed) ==
    /\ op.pc = "isDisplayed"
    /\ op.name \in {"clickOnMoreOptionsIcon", "clickOnAddToReadingListOption"}
    /\ op' = IF displayed
             THEN IF op.name = "clickOnMoreOptionsIcon"
                  THEN AfterLoop([op EXCEPT !.shown = TRUE])
                  ELSE [op EXCEPT !.pc = "clickOption", !.shown = TRUE]
             ELSE NextSelector(op)
    /\ UNCHANGED <<elementCache, performanceMetrics, calls, batch, justCleared,
                   sw, readingListName, fr, world, configCache, env, capsCall>>

\* lines 613-615: click() on the candidate returned; break
OptionClickDone ==
    /\ op.pc = "clickOption"
    /\ op' = AfterLoop([op EXCEPT !.clicked = TRUE])
    /\ UNCHANGED <<elementCache, performanceMetrics, calls, batch, justCleared,
                   sw, readingListName, fr, world, configCache, env, capsCall>>

\* lines 575-577 and 616-618: driver.$, isDisplayed() or click() threw; the
\* inner catch logs it and the loop goes on
OptionRemoteFails ==
    /\ op.pc \in {"locateOption", "clickOption"}
       \/ /\ op.pc = "isDisplayed"
          /\ op.name \in {"clickOnMoreOptionsIcon", "clickOnAddToReadingListOption"}
    /\ op' = NextSelector(op)
    /\ UNCHANGED <<elementCache, performanceMetrics, calls, batch, justCleared,
                   sw, readingListName, fr, world, configCache, env, capsCall>>

\* lines 625-627: driver.pause(2000) returned; logStep(true, ...)
OptionPauseDone ==
    /\ op.pc = "pauseDialog"
    /\ op' = [op EXCEPT !.pc = "logStep"]
    /\ UNCHANGED <<elementCache, performanceMetrics, calls, batch, justCleared,
                   sw, readingListName, fr, world, configCache, env, capsCall>>

NextFallback ==
    \/ ClickOnMoreOptionsIcon
    \/ MoreFindSettled
    \/ MoreClickDone
    \/ MoreClickFails
    \/ MorePauseDone
    \/ ClickOnAddToReadingListOption
    \/ OptionLocated
    \/ \E b \in BOOLEAN : OptionIsDisplayed(b)
    \/ OptionClickDone
    \/ OptionRemoteFails
    \/ OptionPauseDone
    \/ OpLogStepDone
    \/ \E c \in CallIds : LocateOk(c)
    \/ \E c \in CallIds : LocateFail(c)
    \/ \E c \in CallIds : WaitOk(c)
    \/ \E c \in CallIds : WaitFail(c)
    \/ \E c \in CallIds : PauseDone(c)
    \/ \E c \in CallIds : ScreenshotSaved(c)
    \/ \E c \in CallIds : ScreenshotFailed(c)

SpecFallback == Init /\ [][NextFallback]_vars

\* ----------------------------------------------------- the locators table
\* this.locators, as the constructor builds it
locators ==
    [ eclipseIcon |-> eclipseIcon,
      settingsOption |-> settingsOption,
      searchBox |-> searchBox,
      wikiHeaderLogo |-> wikiHeaderLogo,
      featureArticleImage |-> "id:org.wikipedia.alpha:id/view_featured_article_card_image",
      changeLanguageOption |-> changeLanguageOption,
      languageFromList |-> "-android uiautomator:LinearLayout.instance(2)",
      inTheNewsEclipseButton |-> "-android uiautomator:view_list_card_header_menu.instance(0)",
      featureArticleEclipseButton |-> "-android uiautomator:view_list_card_header_menu.instance(1)",
      exploreButton |-> "~Explore",
      readingListButton |-> readingListButton,
      historyButton |-> "-android uiautomator:org.wikipedia.alpha:id/icon.instance(2)",
      navigateToBrowserButton |-> "-android uiautomator:org.wikipedia.alpha:id/icon.instance(3)",
      newsArticle |-> newsArticle,
      moreOptionsIcon |-> moreOptionsIcon,
      addToReadingList |-> addToReadingList,
      readingListNameInput |-> readingListNameInput,
      okButton |-> "id:android:id/button1",
      gotItOkButton |-> "id:org.wikipedia.alpha:id/onboarding_button",
      navigateUp |-> navigateUp,
      readingListTitle |-> "id:org.wikipedia.alpha:id/item_title",
      articleTitle |-> "-android uiautomator:page_list_item_title.instance(0)" ]

\* reading a property the object does not have gives undefined, which the
\* template literal of cacheKey turns into the text "undefined"
UndefinedSelector == "undefined"
Locator(key) == IF key \in DOMAIN locators THEN locators[key] ELSE UndefinedSelector

\* line 770: verifyTwoNewArticles, up to its first await
VerifyTwoNewArticles ==
    /\ op.pc \in {"idle", "done"}
    /\ OpFind([NoOp EXCEPT !.name = "verifyTwoNewArticles"], Locator("newsArticle"),
              "First News Article")

\* lines 770-774: a findElement settled; the second lookup, or the first
\* isDisplayed()
ArticleFindSettled ==
    /\ op.name = "verifyTwoNewArticles"
    /\ op.pc = "find"
    /\ calls[op.call].pc = "done"
    /\ IF calls[op.call].result.kind = "ok" /\ Len(op.finds) = 1
       THEN OpFind(op, Locator("secondNewsArticle"), "Second News Article")
       ELSE /\ op' = IF calls[op.call].result.kind = "ok"
                     THEN [op EXCEPT !.pc = "isDisplayedFirst"]
                     ELSE OpRethrow("Failed to locate", calls[op.call].result)
            /\ UNCHANGED <<elementCache, performanceMetrics, calls, batch, justCleared,
                           sw, readingListName, fr, world, configCache, env, capsCall>>

\* lines 774-775: article1.isDisplayed() returned; op.shown keeps
\* article1Displayed
ArticleFirstDisplayed(displayed) ==
    /\ op.pc = "isDisplayedFirst"
    /\ op' = [op EXCEPT !.pc = "isDisplayedSecond", !.shown = displayed]
    /\ UNCHANGED <<elementCache, performanceMetrics, calls, batch, justCleared,
                   sw, readingListName, fr, world, configCache, env, capsCall>>

\* lines 775-785: article2.isDisplayed() returned; the two tests, logStep
ArticleSecondDisplayed(displayed) ==
    /\ op.pc = "isDisplayedSecond"
    /\ op' = IF ~op.shown
             THEN OpRethrow("First news article is not displayed",
                            [kind |-> "err", description |-> "First news article"])
             ELSE IF ~displayed
             THEN OpRethrow("Second news article is not displayed",
                            [kind |-> "err", description |-> "Second news article"])
             ELSE [op EXCEPT !.pc = "logStep"]
    /\ UNCHANGED <<elementCache, performanceMetrics, calls, batch, justCleared,
                   sw, readingListName, fr, world, configCache, env, capsCall>>

\* an isDisplayed() threw
ArticleRemoteFails ==
    /\ op.pc \in {"isDisplayedFirst", "isDisplayedSecond"}
    /\ op' = OpRethrow("remote", [kind |-> "err", description |-> "remote"])
    /\ UNCHANGED <<elementCache, performanceMetrics, calls, batch, justCleared,
                   sw, readingListName, fr, world, configCache, env, capsCall>>

NextArticles ==
    \/ VerifyTwoNewArticles
    \/ ArticleFindSettled
    \/ \E b \in BOOLEAN : ArticleFirstDisplayed(b)
    \/ \E b \in BOOLEAN : ArticleSecondDisplayed(b)
    \/ ArticleRemoteFails
    \/ OpLogStepDone
    \/ \E c \in CallIds : LocateOk(c)
    \/ \E c \in CallIds : LocateFail(c)
    \/ \E c \in CallIds : WaitOk(c)
    \/ \E c \in CallIds : WaitFail(c)
    \/ \E c \in CallIds : PauseDone(c)
    \/ \E c \in CallIds : ScreenshotSaved(c)
    \/ \E c \in CallIds : ScreenshotFailed(c)

SpecArticles == Init /\ [][NextArticles]_vars

\* ------------------------------------------------- the reading-list check
\* the elementConfigs of verifyNewsArticleIsAddedToReadingList
ReadingListConfigs ==
    << [selector |-> locators.readingListTitle, description |-> "Reading List Title",
        timeout |-> 0],
       [selector |-> locators.articleTitle, description |-> "Article in List",
        timeout |-> 0] >>

\* lines 731-742: the test of this.readingListName, then findElementsParallel
\* up to its await
VerifyNewsArticleIsAddedToReadingList ==
    /\ op.pc \in {"idle", "done"}
    /\ CallerFree
    /\ IF ~Truthy(readingListName)
       THEN /\ op' = [NoOp EXCEPT !.name = "verifyNewsArticleIsAddedToReadingList",
                                  !.pc = "done",
                                  !.result = OpResult("unset", "Reading list name not set"),
                                  !.error = [kind |-> "err",
                                             description |-> "Reading list name not set"]]
            /\ UNCHANGED <<elementCache, performanceMetrics, calls, batch, justCleared,
                           sw, readingListName, fr, world, configCache, env, capsCall>>
       ELSE /\ performanceMetrics.elementLookups + Len(ReadingListConfigs) <= MaxCalls
            /\ LET first == performanceMetrics.elementLookups + 1 IN
               /\ calls' = StartAll(ReadingListConfigs, calls, first)
               /\ performanceMetrics' = MetricsAll(ReadingListConfigs, performanceMetrics)
               /\ batch' = Settle([state |-> "pending",
                                   members |-> [i \in DOMAIN ReadingListConfigs |->
                                                  first + i - 1],
                                   result |-> NoResult, by |-> 0,
                                   configs |-> ReadingListConfigs,
                                   completed |-> SelectSeq(
                                       [i \in DOMAIN ReadingListConfigs |-> i],
                                       LAMBDA i : calls'[first + i - 1].pc = "done")],
                                  calls')
               /\ op' = [NoOp EXCEPT !.name = "verifyNewsArticleIsAddedToReadingList",
                                     !.pc = "batch",
                                     !.finds = [i \in DOMAIN ReadingListConfigs |->
                                                  first + i - 1]]
            /\ justCleared' = FALSE
            /\ UNCHANGED <<elementCache, sw, readingListName, fr, world, configCache, env, capsCall>>

\* lines 738-744: findElementsParallel settled; listTitle.getText() is issued
\* or the rejection goes to the catch block
VerifyBatchSettled ==
    /\ op.pc = "batch"
    /\ batch.state # "pending"
    /\ op' = IF batch.state = "resolved"
             THEN [op EXCEPT !.pc = "getText", !.remote = @ + 1]
             ELSE OpRethrow("Failed to locate", batch.result)
    /\ UNCHANGED <<elementCache, performanceMetrics, calls, batch, justCleared,
                   sw, readingListName, fr, world, configCache, env, capsCall>>

\* lines 744-749: getText() returned titleText; it is compared, trimmed, with
\* this.readingListName (op.arg keeps the name it was compared with)
VerifyTitleRead(titleText) ==
    /\ op.name = "verifyNewsArticleIsAddedToReadingList"
    /\ op.pc = "getText"
    /\ op' = IF JsString(Trim(titleText)) # readingListName
             THEN [OpRethrow("Reading list name mismatch",
                             [kind |-> "err", description |-> "Reading list name mismatch"])
                     EXCEPT !.arg = readingListName]
             ELSE [op EXCEPT !.pc = "logStepName", !.arg = readingListName]
    /\ UNCHANGED <<elementCache, performanceMetrics, calls, batch, justCleared,
                   sw, readingListName, fr, world, configCache, env, capsCall>>

\* lines 749-752: logStep returned; articleInList.isDisplayed() is issued
VerifyLogStepNameDone ==
    /\ op.pc = "logStepName"
    /\ op' = [op EXCEPT !.pc = "articleDisplayed", !.remote = @ + 1,
                        !.logs = Append(@, TRUE)]
    /\ UNCHANGED <<elementCache, performanceMetrics, calls, batch, justCleared,
                   sw, readingListName, fr, world, configCache, env, capsCall>>

\* lines 752-757: isDisplayed() returned
VerifyArticleDisplayed(isDisplayed) ==
    /\ op.pc = "articleDisplayed"
    /\ op' = IF isDisplayed
             THEN [op EXCEPT !.pc = "logStep"]
             ELSE OpRethrow("News article is NOT added to the reading list",
                            [kind |-> "err", description |-> "not added"])
    /\ UNCHANGED <<elementCache, performanceMetrics, calls, batch, justCleared,
                   sw, readingListName, fr, world, configCache, env, capsCall>>

\* getText() or isDisplayed() threw
VerifyRemoteFails ==
    /\ op.name = "verifyNewsArticleIsAddedToReadingList"
    /\ op.pc \in {"getText", "articleDisplayed"}
    /\ op' = OpRethrow("remote", [kind |-> "err", description |-> "remote"])
    /\ UNCHANGED <<elementCache, performanceMetrics, calls, batch, justCleared,
                   sw, readingListName, fr, world, configCache, env, capsCall>>

NextReadingList ==
    \/ \E v \in ListNameArgs : EnterReadingListName(v)
    \/ OpFindSettled
    \/ OpClearValueDone
    \/ OpSetValueDone
    \/ \E text \in TitleTexts : OpGetTextDone(text)
    \/ OpRemoteFails
    \/ OpLogStepDone
    \/ VerifyNewsArticleIsAddedToReadingList
    \/ VerifyBatchSettled
    \/ \E text \in TitleTexts : VerifyTitleRead(text)
    \/ VerifyLogStepNameDone
    \/ \E b \in BOOLEAN : VerifyArticleDisplayed(b)
    \/ VerifyRemoteFails
    \/ \E c \in CallIds : LocateOk(c)
    \/ \E c \in CallIds : LocateFail(c)
    \/ \E c \in CallIds : WaitOk(c)
    \/ \E c \in CallIds : WaitFail(c)
    \/ \E c \in CallIds : PauseDone(c)
    \/ \E c \in CallIds : ScreenshotSaved(c)
    \/ \E c \in CallIds : ScreenshotFailed(c)

SpecReadingList == Init /\ [][NextReadingList]_vars

Next ==
    \/ \E d \in Descriptors, t \in TimeoutArgs : FindElement(d[1], d[2], t)
    \/ \E configs \in ConfigArrays : FindElementsParallel(configs)
    \/ ClearCache
    \/ \E c \in CallIds : LocateOk(c)
    \/ \E c \in CallIds : LocateFail(c)
    \/ \E c \in CallIds : WaitOk(c)
    \/ \E c \in CallIds : WaitFail(c)
    \/ \E c \in CallIds : PauseDone(c)
    \/ \E c \in CallIds : ScreenshotSaved(c)
    \/ \E c \in CallIds : ScreenshotFailed(c)

Spec == Init /\ [][Next]_vars

\* the remote call that findElement call c awaits returns or throws
CallStep(c) ==
    \/ LocateOk(c)
    \/ LocateFail(c)
    \/ WaitOk(c)
    \/ WaitFail(c)
    \/ PauseDone(c)
    \/ ScreenshotSaved(c)
    \/ ScreenshotFailed(c)

\* every remote call (driver.$, waitForDisplayed, pause, saveScreenshot)
\* returns or throws
NextResolve ==
    \/ \E d \in Descriptors, t \in TimeoutArgs : FindElement(d[1], d[2], t)
    \/ \E c \in CallIds : LocateOk(c)
    \/ \E c \in CallIds : LocateFail(c)
    \/ \E c \in CallIds : WaitOk(c)
    \/ \E c \in CallIds : WaitFail(c)
    \/ \E c \in CallIds : PauseDone(c)
    \/ \E c \in CallIds : ScreenshotSaved(c)
    \/ \E c \in CallIds : ScreenshotFailed(c)

\* the resolver with the time its calls take
NextTime ==
    \/ \E d \in Descriptors, t \in TimeoutArgs : FindElement(d[1], d[2], t)
    \/ \E c \in CallIds : LocateOk(c)
    \/ \E c \in CallIds : LocateFail(c)
    \/ \E c \in CallIds : WaitOk(c)
    \/ \E c \in CallIds : WaitFail(c)
    \/ \E c \in CallIds : WaitTimesOut(c)
    \/ \E c \in CallIds : PauseDone(c)
    \/ \E c \in CallIds : ScreenshotSaved(c)
    \/ \E c \in CallIds : ScreenshotFailed(c)

SpecTime == Init /\ [][NextTime]_vars

SpecFair == Init /\ [][NextResolve]_vars /\ \A c \in CallIds : WF_vars(CallStep(c))


\* ------------------------------------------------------ the scenario hooks
\* steps.js holds two variants of the hooks: lines 10-71 (basic) and lines
\* 214-417 (optimized).  Cucumber builds a new World for every scenario, runs
\* Before, the steps with AfterStep after each, and After even when Before or
\* a step has failed.

\* the environment changes process.env between two runs of the program's code
SetEnv(b, u, k) ==
    /\ env' = [BROWSERSTACK |-> b, BROWSERSTACK_USERNAME |-> u,
               BROWSERSTACK_ACCESS_KEY |-> k]
    /\ env' # env
    /\ world.pc \in {"none", "steps", "done"}
    /\ UNCHANGED <<elementCache, performanceMetrics, calls, batch, justCleared,
                   sw, op, readingListName, fr, world, configCache, capsCall>>

\* Before up to `await remote(remoteOptions)`
Before(variant) ==
    /\ world.pc = "none"
    /\ world' = [world EXCEPT !.variant = variant, !.pc = "remote"]
    /\ UNCHANGED <<elementCache, performanceMetrics, calls, batch, justCleared,
                   sw, op, readingListName, fr, configCache, env, capsCall>>

\* this.driver = driver; this.demoPage = demoPage; this.scenarioFailed = false
BeforeAssigns(w) ==
    [w EXCEPT !.pc = "steps", !.driver = TRUE, !.scenarioFailed = JsBoolean(FALSE)]

\* remote() returns the session; the optimized hook then awaits driver.pause(2000)
RemoteOk ==
    /\ world.pc = "remote"
    /\ world' = IF world.variant = "basic" THEN BeforeAssigns(world)
                ELSE [world EXCEPT !.pc = "pause"]
    /\ UNCHANGED <<elementCache, performanceMetrics, calls, batch, justCleared,
                   sw, op, readingListName, fr, configCache, env, capsCall>>

BeforePauseDone ==
    /\ world.pc = "pause"
    /\ world' = BeforeAssigns(world)
    /\ UNCHANGED <<elementCache, performanceMetrics, calls, batch, justCleared,
                   sw, op, readingListName, fr, configCache, env, capsCall>>

\* remote() or pause() throws: the hook throws with this.driver unassigned
\* (the optimized catch block finds no this.driver and rethrows); the steps
\* are skipped
BeforeFails ==
    /\ world.pc \in {"remote", "pause"}
    /\ world' = [world EXCEPT !.pc = "steps"]
    /\ UNCHANGED <<elementCache, performanceMetrics, calls, batch, justCleared,
                   sw, op, readingListName, fr, configCache, env, capsCall>>

\* if (result.status === 'FAILED') this.scenarioFailed = true
AfterStepAssigns(w, status) ==
    [w EXCEPT !.results = Append(@, status),
              !.scenarioFailed = IF status = "FAILED" THEN JsBoolean(TRUE) ELSE @]

\* AfterStep; the optimized hook awaits takeScreenshot() after a FAILED step
AfterStep(status) ==
    /\ world.pc = "steps" /\ world.driver
    /\ Len(world.results) < MaxSteps
    /\ world' = [AfterStepAssigns(world, status) EXCEPT
                    !.pc = IF world.variant = "optimized" /\ status = "FAILED"
                           THEN "stepShot" ELSE "steps"]
    /\ UNCHANGED <<elementCache, performanceMetrics, calls, batch, justCleared,
                   sw, op, readingListName, fr, configCache, env, capsCall>>

\* the failure screenshot is saved, or takeScreenshot throws and the error is
\* logged
AfterStepShotSettled ==
    /\ world.pc = "stepShot"
    /\ world' = [world EXCEPT !.pc = "steps"]
    /\ UNCHANGED <<elementCache, performanceMetrics, calls, batch, justCleared,
                   sw, op, readingListName, fr, configCache, env, capsCall>>

\* the After hook issues a call on the driver
Attempt(w, call) == [w EXCEPT !.pc = call, !.events = Append(@, call)]

\* After up to its first await
After ==
    /\ world.pc = "steps"
    /\ IF ~world.driver
       THEN world' = [world EXCEPT !.pc = "done"]
       ELSE LET status == IF Truthy(world.scenarioFailed) THEN "failed" ELSE "passed"
                read == [world EXCEPT !.environment = env.BROWSERSTACK]
            IN  IF world.variant = "basic" \/ env.BROWSERSTACK = EnvTrue
                THEN world' = [Attempt(read, "setSessionStatus") EXCEPT !.status = status]
                ELSE world' = Attempt(read, "takeScreenshot")
    /\ UNCHANGED <<elementCache, performanceMetrics, calls, batch, justCleared,
                   sw, op, readingListName, fr, configCache, env, capsCall>>

\* driver.execute returns
ReportDone ==
    /\ world.pc = "setSessionStatus"
    /\ world' = Attempt(world, IF world.variant = "basic" THEN "deleteSession"
                               ELSE "takeScreenshot")
    /\ UNCHANGED <<elementCache, performanceMetrics, calls, batch, justCleared,
                   sw, op, readingListName, fr, configCache, env, capsCall>>

\* the status report without its try block: the error leaves the hook
ReportCatchRethrows(w) ==
    [w EXCEPT !.caught = Append(@, w.pc), !.pc = "done", !.escaped = TRUE]

\* catch (err) of the status report: the error is logged and the hook goes on
\* to deleteSession (the optimized hook skips its final screenshot)
ReportCatch(w) == Attempt([w EXCEPT !.caught = Append(@, w.pc)], "deleteSession")

ReportFails ==
    /\ world.pc = "setSessionStatus"
    /\ world' = ReportCatch(world)
    /\ UNCHANGED <<elementCache, performanceMetrics, calls, batch, justCleared,
                   sw, op, readingListName, fr, configCache, env, capsCall>>

\* the final screenshot of the optimized hook is saved, or fails and is logged
FinalShotSettled(threw) ==
    /\ world.pc = "takeScreenshot"
    /\ world' = Attempt([world EXCEPT !.caught = IF threw THEN Append(@, world.pc) ELSE @],
                        "deleteSession")
    /\ UNCHANGED <<elementCache, performanceMetrics, calls, batch, justCleared,
                   sw, op, readingListName, fr, configCache, env, capsCall>>

DeleteDone ==
    /\ world.pc = "deleteSession"
    /\ world' = [world EXCEPT !.pc = "done"]
    /\ UNCHANGED <<elementCache, performanceMetrics, calls, batch, justCleared,
                   sw, op, readingListName, fr, configCache, env, capsCall>>

\* deleteSession throws: the basic hook logs; the optimized hook logs and
\* calls driver.quit()
DeleteFails ==
    /\ world.pc = "deleteSession"
    /\ LET w == [world EXCEPT !.caught = Append(@, world.pc)] IN
       world' = IF world.variant = "basic" THEN [w EXCEPT !.pc = "done"]
                ELSE Attempt(w, "quit")
    /\ UNCHANGED <<elementCache, performanceMetrics, calls, batch, justCleared,
                   sw, op, readingListName, fr, configCache, env, capsCall>>

\* driver.quit() returns, or throws and the error is logged
QuitSettled(threw) ==
    /\ world.pc = "quit"
    /\ world' = [world EXCEPT !.pc = "done",
                              !.caught = IF threw THEN Append(@, world.pc) ELSE @]
    /\ UNCHANGED <<elementCache, performanceMetrics, calls, batch, justCleared,
                   sw, op, readingListName, fr, configCache, env, capsCall>>

\* the next scenario gets a new World
NewScenario ==
    /\ world.pc = "done"
    /\ world' = NoWorld
    /\ UNCHANGED <<elementCache, performanceMetrics, calls, batch, justCleared,
                   sw, op, readingListName, fr, configCache, env, capsCall>>

NextScenario ==
    \/ \E b \in BrowserStackValues, u, k \in CredentialValues : SetEnv(b, u, k)
    \/ \E variant \in Variants : Before(variant)
    \/ RemoteOk
    \/ BeforePauseDone
    \/ BeforeFails
    \/ \E status \in StepStatuses : AfterStep(status)
    \/ AfterStepShotSettled
    \/ After
    \/ ReportDone
    \/ ReportFails
    \/ \E threw \in BOOLEAN : FinalShotSettled(threw)
    \/ DeleteDone
    \/ DeleteFails
    \/ \E threw \in BOOLEAN : QuitSettled(threw)
    \/ NewScenario

SpecScenario == Init /\ [][NextScenario]_vars

\* --------------------------------------------------- the capabilities cache
\* src/android/capabilities.js

\* obj[key] = value on an object literal: an own property keeps its place
AssignProperty(obj, key, value) ==
    IF \E i \in DOMAIN obj : obj[i].key = key
    THEN [i \in DOMAIN obj |-> IF obj[i].key = key THEN Property(key, value) ELSE obj[i]]
    ELSE Append(obj, Property(key, value))

\* { ...obj, ...options } from property i of options on
RECURSIVE SpreadFrom(_, _, _)
SpreadFrom(obj, options, i) ==
    IF i > Len(options) THEN obj
    ELSE SpreadFrom(AssignProperty(obj, options[i].key, options[i].value), options, i + 1)

\* Array.prototype.join
RECURSIVE Join(_, _)
Join(parts, separator) ==
    IF parts = <<>> THEN ""
    ELSE IF Len(parts) = 1 THEN parts[1]
    ELSE parts[1] \o separator \o Join(Tail(parts), separator)

\* JSON.stringify of an object whose values are strings or undefined: the
\* properties that hold undefined are left out
JSONstringify(obj) ==
    LET defined == SelectSeq(obj, LAMBDA m : m.value.type # "undefined")
        member(m) == "\"" \o m.key \o "\":\"" \o Join(m.value.str, "") \o "\""
    IN  "{" \o Join([i \in DOMAIN defined |-> member(defined[i])], ",") \o "}"

\* const cacheKey = JSON.stringify({ environment: process.env.BROWSERSTACK, ...options })
configCacheKey(e, options) ==
    JSONstringify(SpreadFrom(<<Property("environment", e.BROWSERSTACK)>>, options, 1))

\* validateEnvironment: the names of the required variables that are not set
validateEnvironment(e) ==
    SelectSeq(<<"BROWSERSTACK_USERNAME", "BROWSERSTACK_ACCESS_KEY">>,
              LAMBDA key : ~Truthy(e[key]))

\* const { name = fallback } = options
OptionOr(options, name, fallback) ==
    IF \E i \in DOMAIN options : options[i].key = name /\ options[i].value.type # "undefined"
    THEN LET i == CHOOSE i \in DOMAIN options : options[i].key = name
         IN  Join(options[i].value.str, "")
    ELSE fallback

\* DEVICE_PROFILES[profileName] || DEVICE_PROFILES.samsung_s22
getDeviceProfile(profileName) ==
    CASE profileName = "samsung_s21" -> "Samsung Galaxy S21"
      [] profileName = "pixel_6" -> "Google Pixel 6"
      [] OTHER -> "Samsung Galaxy S22 Ultra"

\* the object literals of createBrowserStackCapabilities and
\* createLocalCapabilities; id tells the objects apart
createBrowserStackCapabilities(options, id) ==
    [id |-> id, platformName |-> "android",
     sessionName |-> OptionOr(options, "sessionName", "Wiki App Test"),
     deviceName |-> getDeviceProfile(OptionOr(options, "deviceProfile", "samsung_s22"))]

createLocalCapabilities(options, id) ==
    [id |-> id, platformName |-> "Android", sessionName |-> "",
     deviceName |-> OptionOr(options, "deviceName", "emulator-5554")]

\* history: the call with this BROWSERSTACK value and these options returned
\* this object
Returned(call, value) ==
    CacheSet(call.returned, <<call.environment, call.options>>, value)

\* getCapabilities(options)
getCapabilities(options) ==
    /\ capsCall.count < MaxConfigCalls
    /\ LET key == configCacheKey(env, options)
           isBrowserStack == env.BROWSERSTACK = EnvTrue
           missing == validateEnvironment(env)
           call == [capsCall EXCEPT !.options = options, !.environment = env.BROWSERSTACK,
                                    !.key = key, !.count = @ + 1, !.message = <<>>,
                                    !.built = FALSE, !.validated = FALSE]
       IN  IF CacheHas(configCache, key)
           THEN /\ capsCall' = [call EXCEPT !.kind = "ok",
                                            !.value = CacheGet(configCache, key),
                                            !.returned = Returned(call, CacheGet(configCache, key))]
                /\ UNCHANGED configCache
           ELSE IF isBrowserStack /\ missing # <<>>
           THEN /\ capsCall' =
                     [call EXCEPT !.kind = "error", !.validated = TRUE,
                                  !.message = <<"Capabilities configuration failed: ",
                                                "Missing required environment variables: "
                                                   \o Join(missing, ", ")>>]
                /\ UNCHANGED configCache
           ELSE LET capabilities ==
                        IF isBrowserStack
                        THEN createBrowserStackCapabilities(options, capsCall.builds + 1)
                        ELSE createLocalCapabilities(options, capsCall.builds + 1)
                IN  /\ configCache' = CacheSet(configCache, key, capabilities)
                    /\ capsCall' = [call EXCEPT !.kind = "ok", !.value = capabilities,
                                                !.built = TRUE, !.builds = @ + 1,
                                                !.validated = isBrowserStack,
                                                !.returned = Returned(call, capabilities)]
    /\ UNCHANGED <<elementCache, performanceMetrics, calls, batch, justCleared,
                   sw, op, readingListName, fr, world, env>>

NextCaps ==
    \/ \E b \in BrowserStackValues, u, k \in CredentialValues : SetEnv(b, u, k)
    \/ \E options \in OptionsArgs : getCapabilities(options)

SpecCaps == Init /\ [][NextCaps]_vars

\* ------------------------------------------------------------- properties
KeyOf(rec) == cacheKey(rec.selector, rec.description)
SameDescriptor(r1, r2) == r1.selector = r2.selector /\ r1.description = r2.description
\* call c is invoked in this step
StartsNow(c) == calls[c].pc = "unstarted" /\ calls'[c].pc # "unstarted"

\* C1: once findElement has succeeded for a descriptor and clearCache has not
\* run since, a later findElement with the same descriptor returns the handle
\* held by the cache and issues no driver.$ and no waitForDisplayed.
C1_Idempotent ==
    /\ [][\A c \in CallIds, c1 \in CallIds :
            (StartsNow(c) /\ calls[c1].live /\ SameDescriptor(calls[c1], calls'[c]))
            => /\ calls'[c].pc = "done"
               /\ calls'[c].hit
               /\ calls'[c].result = Fulfilled(CacheGet(elementCache, KeyOf(calls[c1])))
               /\ calls'[c].locates = 0
               /\ elementCache' = elementCache]_vars
    /\ [](\A c \in CallIds : calls[c].hit =>
            calls[c].pc = "done" /\ calls[c].locates = 0 /\ calls[c].element = NoHandle)

C1_Witness ==
    \E c \in CallIds, c1 \in CallIds :
        /\ c1 < c /\ calls[c1].live /\ calls[c].hit
        /\ SameDescriptor(calls[c1], calls[c])
        /\ calls[c].result = Fulfilled(calls[c1].element)

\* C2: a call that is not served from the cache and whose attempts all fail
\* issues driver.$ exactly retryAttempts = 3 times and then throws.
C2_RetryBound ==
    \A c \in CallIds :
        /\ calls[c].locates <= retryAttempts
        /\ calls[c].pc = "shot" => calls[c].locates = retryAttempts
        /\ (calls[c].pc = "done" /\ calls[c].result.kind # "ok")
            => /\ calls[c].result = ResolutionFailure(calls[c].description, 3,
                                                      calls[c].lastError)
               /\ calls[c].locates = 3
               /\ calls[c].attempt = 3

C2_Witness ==
    \E c \in CallIds : calls[c].result.kind = "err" /\ calls[c].locates = 3

\* C3 as stated: the k-th pause of a call lasts min(1000 * 2^(k-1), 5000) ms.
C3_ExponentialBackoff ==
    \A c \in CallIds : \A k \in DOMAIN calls[c].pauses :
        calls[c].pauses[k] = CappedExponential(k)

\* C3 amended: every pause between attempts lasts retryDelay = 1000 ms; a call
\* that fails all three attempts has paused exactly twice, 1000 ms and
\* 1000 ms, and does not pause after the final attempt.
C3_FixedDelay ==
    \A c \in CallIds :
        /\ \A k \in DOMAIN calls[c].pauses : calls[c].pauses[k] = 1000
        /\ calls[c].pc = "pause" => Len(calls[c].pauses) = calls[c].attempt
        /\ calls[c].pc \in {"locate", "wait", "shot"}
            => Len(calls[c].pauses) = calls[c].attempt - 1
        /\ calls[c].result.kind = "err" => calls[c].pauses = <<1000, 1000>>

C3_Witness ==
    \E c \in CallIds : calls[c].result.kind = "err" /\ Len(calls[c].pauses) = 2

\* C4: a batch with a member that fails is rejected with that member's error
\* and never yields a result array, and the rejection leaves the cache as it
\* is: the entries written by the members that succeeded stay.
C4_BatchAtomicity ==
    /\ [](/\ (\E i \in DOMAIN batch.members : calls[batch.members[i]].result.kind = "err")
              => batch.state = "rejected"
          /\ batch.state = "rejected"
              => /\ batch.by \in Range(batch.members)
                 /\ batch.result = calls[batch.by].result
                 /\ batch.result.kind = "err"
                 /\ batch.result.description = calls[batch.by].description
          /\ batch.state = "resolved"
              => \A i \in DOMAIN batch.members : calls[batch.members[i]].result.kind = "ok")
    /\ [][(batch.state = "pending" /\ batch'.state = "rejected")
            => elementCache' = elementCache]_vars

C4_Witness ==
    /\ batch.state = "rejected"
    /\ \E i \in DOMAIN batch.members :
          /\ batch.members[i] # batch.by
          /\ calls[batch.members[i]].writes = 1
          /\ CacheHas(elementCache, KeyOf(calls[batch.members[i]]))
          /\ CacheGet(elementCache, KeyOf(calls[batch.members[i]]))
                = calls[batch.members[i]].element

\* C5: clearCache leaves the cache empty; a findElement invoked next goes to
\* the remote session, and no findElement ever returns a handle that a
\* clearCache has dropped.
C5_Invalidation ==
    /\ [](justCleared => elementCache = EmptyCache)
    /\ [][\A c \in CallIds :
            StartsNow(c) =>
               /\ justCleared => (~calls'[c].hit /\ calls'[c].pc = "locate"
                                  /\ calls'[c].locates = 1)
               /\ calls'[c].hit => calls[calls'[c].result.handle.call].live]_vars

C5_Witness ==
    \E c \in CallIds, c1 \in CallIds :
        /\ c1 < c /\ calls[c1].writes = 1 /\ ~calls[c1].live
        /\ SameDescriptor(calls[c1], calls[c])
        /\ ~calls[c].hit /\ calls[c].locates >= 1

\* the elementCache.set calls made so far for a descriptor
WritesFor(d) ==
    Cardinality({ c \in CallIds : calls[c].selector = d[1] /\ calls[c].description = d[2]
                                   /\ calls[c].writes >= 1 })

\* C6 as stated: the cache entry of a descriptor is written at most once.
C6_OneWritePerDescriptor ==
    \A d \in Descriptors :
        /\ WritesFor(d) <= 1
        /\ \A c \in CallIds : calls[c].writes <= 1

\* C6 amended: a findElement call writes the cache entry of its descriptor at
\* most once, and only a call that missed the cache on entry writes it.
C6_OneWritePerCall ==
    \A c \in CallIds :
        /\ calls[c].writes <= 1
        /\ calls[c].hit => calls[c].writes = 0
        /\ calls[c].writes = 1 => calls[c].result.kind = "ok"

C6_Witness ==
    \E c \in CallIds, c1 \in CallIds :
        /\ c # c1 /\ SameDescriptor(calls[c], calls[c1])
        /\ calls[c].writes = 1 /\ calls[c1].writes = 1

\* a findElement call gives up an attempt, or throws, in this step
AttemptFails(c) ==
    \/ calls'[c].lastError # calls[c].lastError
    \/ calls[c].pc \in {"locate", "wait"} /\ calls'[c].pc \in {"pause", "shot"}
    \/ calls[c].result.kind # "err" /\ calls'[c].result.kind = "err"

\* C7: every handle in the cache was stored by an attempt whose driver.$ and
\* waitForDisplayed both succeeded, under the key of that call; a failing
\* attempt and an exhausted call leave the cache as it was.
C7_NoPartialHandle ==
    /\ [](\A k \in DOMAIN elementCache :
            LET h == elementCache[k] IN
            /\ h # NoHandle
            /\ h.call \in CallIds
            /\ calls[h.call].displayed
            /\ calls[h.call].element = h
            /\ calls[h.call].result = Fulfilled(h)
            /\ KeyOf(calls[h.call]) = k)
    /\ [][\A c \in CallIds : AttemptFails(c) => elementCache' = elementCache]_vars

C7_Witness ==
    \E c \in CallIds :
        /\ calls[c].writes = 1 /\ calls[c].attempt > 1
        /\ CacheHas(elementCache, KeyOf(calls[c]))
        /\ CacheGet(elementCache, KeyOf(calls[c])) = calls[c].element

\* the attempts on which the condition threw
ThrewAt == { i \in DOMAIN sw.outcomes : sw.outcomes[i] = "threw" }
Exhausted == sw.pc = "done" /\ sw.result.kind # "value"

\* C8: smartWait returns the condition's result on the first attempt k at
\* which it is truthy, k <= maxAttempts, after exactly k-1 pauses of
\* initialDelay * 2^(i-1) ms and no pause after attempt k; with the defaults
\* and a condition that is falsy twice and then truthy the pauses are 500 ms
\* and 1000 ms and attempt 3 returns.
C8_SuccessPath ==
    /\ \A i \in DOMAIN sw.pauses : sw.pauses[i] = sw.initialDelay * 2^(i - 1)
    /\ \A i \in DOMAIN sw.outcomes :
          sw.outcomes[i] = "truthy" => (i = Len(sw.outcomes) /\ sw.pc = "done"
                                        /\ sw.result.kind = "value")
    /\ (sw.pc = "done" /\ sw.result.kind = "value")
          => /\ Truthy(sw.result.value)
             /\ sw.attempt <= sw.maxAttempts
             /\ Len(sw.outcomes) = sw.attempt
             /\ sw.outcomes[sw.attempt] = "truthy"
             /\ Len(sw.pauses) = sw.attempt - 1
    /\ (sw.maxAttempts = 5 /\ sw.initialDelay = 500
        /\ sw.outcomes = <<"falsy", "falsy", "truthy">>)
          => (sw.pauses = <<500, 1000>> /\ sw.attempt = 3 /\ sw.result.kind = "value")

C8_Witness ==
    /\ sw.maxAttempts = 5 /\ sw.initialDelay = 500
    /\ sw.outcomes = <<"falsy", "falsy", "truthy">>
    /\ sw.pc = "done" /\ sw.pauses = <<500, 1000>>

\* C9 as stated: on exhaustion smartWait re-raises the last error the
\* condition threw if it threw on any attempt, and raises the generic timeout
\* error only if the condition never threw.
C9_RethrowsLastError ==
    Exhausted =>
        IF ThrewAt # {}
        THEN sw.result.kind = "error"
             /\ \A i \in ThrewAt : i <= sw.result.thrownAt
             /\ sw.result.thrownAt \in ThrewAt
        ELSE sw.result = ConditionTimeout

\* C9 amended: on exhaustion smartWait re-raises the condition's error only
\* if the condition threw on the final attempt (attempt maxAttempts); when the
\* final attempt returned a falsy value, or maxAttempts < 1, it raises the
\* generic timeout error, whether or not earlier attempts threw.
C9_RethrowsFinalError ==
    Exhausted =>
        /\ Len(sw.outcomes) = sw.maxAttempts
        /\ IF sw.maxAttempts >= 1 /\ sw.outcomes[sw.maxAttempts] = "threw"
           THEN sw.result.kind = "error" /\ sw.result.thrownAt = sw.maxAttempts
           ELSE /\ sw.result = ConditionTimeout
                /\ sw.maxAttempts >= 1 => sw.outcomes[sw.maxAttempts] = "falsy"

C9_Witness ==
    /\ Exhausted /\ sw.result = ConditionTimeout
    /\ ThrewAt # {}

\* an empty string, a whitespace-only string or a value that is not a string
BlankOrNotString(v) ==
    v.type # "string" \/ \A i \in DOMAIN v.str : v.str[i] \in {" ", "\t", "\n"}
\* a page operation is called in this step
OpInvoked == op.pc \in {"idle", "done"} /\ op' # op

\* C10: enterLanguageInSearchBox and enterReadingListName called with an
\* empty string, a whitespace-only string or a non-string throw the
\* invalid-argument error before any remote call, and leave the cache, the
\* counters and readingListName unchanged.
C10_ValidationFirst ==
    /\ [][(OpInvoked /\ BlankOrNotString(op'.arg))
            => /\ op'.pc = "done"
               /\ op'.result.kind = "invalid"
               /\ op'.remote = 0 /\ op'.call = 0
               /\ calls' = calls
               /\ elementCache' = elementCache
               /\ performanceMetrics' = performanceMetrics
               /\ readingListName' = readingListName]_vars
    /\ [](op.result.kind = "invalid" => (op.remote = 0 /\ op.call = 0 /\ op.pc = "done"))

C10_Witness ==
    /\ op.name = "enterReadingListName"
    /\ op.result.kind = "invalid"
    /\ op.arg = JsString(<<"\t", " ">>)
    /\ readingListName = JsString(<<"e", "n">>)
    /\ elementCache # EmptyCache
    /\ performanceMetrics.elementLookups > 0

\* C11: when every descriptor resolves, findElementsParallel returns an array
\* as long as its input whose position i holds the handle that the findElement
\* call for input descriptor i returned, whatever the order in which the
\* calls settled.
C11_OrderPreserved ==
    batch.state = "resolved" =>
        /\ batch.result.kind = "array"
        /\ Len(batch.result.handles) = Len(batch.configs)
        /\ \A i \in DOMAIN batch.configs :
              /\ calls[batch.members[i]].selector = batch.configs[i].selector
              /\ calls[batch.members[i]].description = batch.configs[i].description
              /\ batch.result.handles[i] = calls[batch.members[i]].result.handle
              /\ batch.result.handles[i] # NoHandle

C11_Witness ==
    /\ batch.state = "resolved"
    /\ batch.completed = <<2, 1>>
    /\ batch.result.handles[1] # batch.result.handles[2]
    /\ batch.result.handles[1].call = batch.members[1]

\* the final attempt of call c fails in this step with the given cause
FinalAttemptFails(c, cause) ==
    /\ calls[c].attempt = retryAttempts
    /\ calls[c].pc = (IF cause = "locate" THEN "locate" ELSE "wait")
    /\ calls'[c].pc = "shot"

\* C12: findElement attempts its diagnostic screenshot exactly once, only after
\* the final failed attempt, then throws an error carrying the description and
\* the error of that last attempt; a screenshot that fails changes nothing in
\* what is thrown.
C12_FailureOnExhaustion ==
    /\ [](\A c \in CallIds :
            /\ calls[c].shots <= 1
            /\ calls[c].shots = 1 <=> (calls[c].pc = "shot" \/ calls[c].result.kind = "err")
            /\ calls[c].shots = 1 => calls[c].attempt = retryAttempts
            /\ calls[c].pc = "shot" => calls[c].shot = "none"
            /\ calls[c].result.kind = "err"
                => /\ calls[c].shot \in {"saved", "failed"}
                   /\ calls[c].result.description = calls[c].description
                   /\ calls[c].result.cause = calls[c].lastError
                   /\ calls[c].result.cause \in {"locate", "display"})
    /\ [][\A c \in CallIds : \A cause \in {"locate", "display"} :
            FinalAttemptFails(c, cause) => calls'[c].lastError = cause]_vars
    /\ [][\A c \in CallIds :
            (calls[c].pc = "shot" /\ calls'[c].pc = "done")
            => calls'[c].result = ResolutionFailure(calls[c].description, retryAttempts,
                                                    calls[c].lastError)]_vars

C12_Witness ==
    \E c \in CallIds :
        /\ calls[c].result.kind = "err" /\ calls[c].shot = "failed"
        /\ calls[c].shots = 1 /\ calls[c].result.cause = "display"

\* C13: descriptors that differ in selector or description have different
\* cache keys, so a findElement served from the cache returns a handle that
\* was resolved for its own (selector, description) pair.
C13_KeysUniquePerDescriptor ==
    \A c \in CallIds :
        calls[c].hit =>
            LET origin == calls[calls[c].result.handle.call] IN
            /\ KeyOf(origin) = KeyOf(calls[c])
            /\ SameDescriptor(origin, calls[c])

\* C14: when one batch names the same, not yet cached, descriptor more than
\* once, at most one of the findElement calls for it issues driver.$.
C14_OneLookupForDuplicates ==
    \A i \in DOMAIN batch.members : \A j \in DOMAIN batch.members :
        (i # j /\ batch.configs[i].selector = batch.configs[j].selector
               /\ batch.configs[i].description = batch.configs[j].description)
        => ~(calls[batch.members[i]].locates >= 1 /\ calls[batch.members[j]].locates >= 1)

\* C16: elementLookups, cacheHits and totalWaitTime never decrease, clearCache
\* leaves all three as they are, and every cache hit adds exactly one to
\* cacheHits.
C16_CountersNeverReset ==
    [][/\ performanceMetrics'.elementLookups >= performanceMetrics.elementLookups
       /\ performanceMetrics'.cacheHits >= performanceMetrics.cacheHits
       /\ performanceMetrics'.totalWaitTime >= performanceMetrics.totalWaitTime
       /\ justCleared' => performanceMetrics' = performanceMetrics
       /\ performanceMetrics'.cacheHits - performanceMetrics.cacheHits
             = Cardinality({ c \in CallIds : StartsNow(c) /\ calls'[c].hit })]_vars

C16_Witness ==
    /\ justCleared
    /\ performanceMetrics.cacheHits = 1
    /\ performanceMetrics.elementLookups = 2
    /\ performanceMetrics.totalWaitTime > 0

\* C20: every cache entry was written by a findElement call that started after
\* the most recent clearCache; a call that was in flight when clearCache ran
\* does not store its handle afterwards.
C20_NoWriteAcrossClear ==
    \A k \in DOMAIN elementCache : ~calls[elementCache[k].call].overtaken

\* the invocations of condition() made so far by smartWait
Invocations == Len(sw.outcomes) + (IF sw.pc = "condition" THEN 1 ELSE 0)

\* C19: condition() is invoked at most maxAttempts times; an error it throws
\* on a non-final attempt is swallowed and followed by the pause and the next
\* attempt; when every attempt returns a falsy value a pause follows each of
\* the maxAttempts attempts, the last one included, before the timeout error;
\* with maxAttempts = 0 the timeout error is thrown without any invocation.
C19_AttemptAccounting ==
    /\ [](/\ Invocations <= sw.maxAttempts
          /\ sw.pc # "idle" => Invocations = (IF sw.pc = "pause" THEN sw.attempt
                                              ELSE Min(sw.attempt, sw.maxAttempts))
          /\ \A i \in DOMAIN sw.outcomes :
                (sw.outcomes[i] = "threw" /\ i < sw.maxAttempts)
                => /\ Len(sw.pauses) >= i
                   /\ sw.result.kind # "error" \/ sw.result.thrownAt # i
          /\ (sw.pc = "done" /\ Len(sw.outcomes) = sw.maxAttempts
              /\ \A i \in DOMAIN sw.outcomes : sw.outcomes[i] = "falsy")
                => (sw.result = ConditionTimeout /\ Len(sw.pauses) = sw.maxAttempts)
          /\ (sw.pc = "done" /\ sw.maxAttempts = 0)
                => (sw.result = ConditionTimeout /\ sw.outcomes = <<>> /\ sw.pauses = <<>>))
    /\ [][(sw.pc = "condition" /\ sw'.pc = "pause" /\ sw.attempt < sw.maxAttempts)
            => sw'.pauses = Append(sw.pauses, sw.delay)]_vars
    /\ [][(sw.pc = "pause" /\ sw.attempt < sw.maxAttempts)
            => (sw'.pc = "condition" /\ sw'.attempt = sw.attempt + 1)]_vars

C19_Witness ==
    /\ sw.pc = "done" /\ sw.maxAttempts = 3
    /\ sw.outcomes = <<"threw", "falsy", "falsy">>
    /\ Len(sw.pauses) = 3
    /\ sw.result = ConditionTimeout

\* C15: every operation that moves the app to another page leaves the cache
\* empty when it completes successfully.
C15_CacheClearedOnNavigation ==
    (/\ op.pc = "done"
     /\ op.result.kind = "ok"
     /\ op.name \in {"navigateToSettings", "navigateToReadingListSection",
                     "clickOnNewsArticle", "clickChangeLanguage"})
    => elementCache = EmptyCache

\* the findElement call an operation made last
LastFind == calls[op.finds[Len(op.finds)]]

\* C17: an operation calls findElement at most once per descriptor and never
\* again after a failure; the failure of findElement reaches the calling step
\* as the same error object, after logStep(false, ...).
C17_RetriesContained ==
    /\ [](/\ \A i, j \in DOMAIN op.finds :
                i # j => ~SameDescriptor(calls[op.finds[i]], calls[op.finds[j]])
          /\ \A i \in DOMAIN op.finds :
                i < Len(op.finds) => calls[op.finds[i]].result.kind = "ok"
          /\ (op.finds # <<>> /\ op.pc = "done" /\ LastFind.result.kind = "err")
                => /\ op.result.kind = "error"
                   /\ op.error = LastFind.result
                   /\ op.logs # <<>> /\ ~op.logs[Len(op.logs)])
    /\ [][(op.pc = "find" /\ calls[op.call].result.kind = "err" /\ op' # op)
            => (/\ op'.pc = "done"
                /\ op'.error = calls[op.call].result
                /\ op'.logs = Append(op.logs, FALSE)
                /\ calls' = calls
                /\ performanceMetrics' = performanceMetrics)]_vars

C17_Witness ==
    /\ op.name = "navigateToReadingListSection"
    /\ op.pc = "done"
    /\ Len(op.finds) = 2
    /\ LastFind.result.kind = "err"
    /\ op.error = LastFind.result
    /\ op.logs = <<TRUE, FALSE>>

\* findElementWithRetry has thrown: no attempt succeeded
RetryExhausted == fr.pc = "done" /\ fr.result.kind # "ok"

\* C18 as stated: for any maxRetries an always-failing lookup makes maxRetries
\* attempts and maxRetries - 1 sleeps, the sleep after attempt k is
\* min(1000 * 2^(k-1), 5000), the delays run 1000, 2000, 5000, ..., none is
\* above 5000, and the error thrown carries the description and the last
\* error's message.
C18_BackoffAsStated ==
    /\ \A k \in DOMAIN fr.sleeps :
          /\ fr.sleeps[k] = Min(1000 * 2^(k - 1), 5000)
          /\ fr.sleeps[k] = (IF k = 1 THEN 1000 ELSE IF k = 2 THEN 2000 ELSE 5000)
          /\ fr.sleeps[k] <= 5000
    /\ RetryExhausted
          => /\ fr.tries = fr.maxRetries
             /\ Len(fr.sleeps) = fr.maxRetries - 1
             /\ fr.result.kind = "err"
             /\ fr.result.description = fr.description
             /\ fr.result.message = fr.lastError

\* C18: the sleep after attempt k is min(1000 * 2^(k-1), 5000), so the delays
\* run 1000, 2000, 4000, 5000, 5000, ... and none is above 5000; a sleep is
\* always followed by the next attempt; with maxRetries >= 1 an always-failing
\* lookup makes maxRetries attempts and maxRetries - 1 sleeps and throws an
\* error with the description and the message of the error of the last
\* attempt; with maxRetries < 1 it makes no attempt and no sleep and fails
\* with a TypeError.
C18_CappedBackoff ==
    /\ [](/\ \A k \in DOMAIN fr.sleeps :
                /\ fr.sleeps[k] = Min(1000 * 2^(k - 1), 5000)
                /\ fr.sleeps[k] = <<1000, 2000, 4000, 5000, 5000>>[k]
                /\ fr.sleeps[k] <= 5000
          /\ (RetryExhausted /\ fr.maxRetries >= 1)
                => /\ fr.tries = fr.maxRetries
                   /\ Len(fr.sleeps) = fr.maxRetries - 1
                   /\ fr.result.kind = "err"
                   /\ fr.result.description = fr.description
                   /\ fr.result.attempts = fr.maxRetries
                   /\ fr.result.message = fr.lastError
                   /\ fr.lastError.at = fr.maxRetries
          /\ (RetryExhausted /\ fr.maxRetries < 1)
                => /\ fr.tries = 0
                   /\ fr.sleeps = <<>>
                   /\ fr.result.kind = "TypeError")
    /\ [][fr.pc = "sleep" => (fr'.pc = "located" /\ fr'.attempt = fr.attempt + 1
                              /\ fr'.tries = fr.tries + 1)]_vars

C18_Witness ==
    /\ RetryExhausted
    /\ fr.maxRetries = 6
    /\ fr.sleeps = <<1000, 2000, 4000, 5000, 5000>>
    /\ fr.result.kind = "err"
    /\ fr.result.message = WaitError(6, "not visible")

\* call c has been started and has not settled
InFlight(c) == calls[c].pc \notin {"unstarted", "done"}

\* C21: the rejection of a batch leaves the sibling lookups as they are; a
\* sibling still in flight can always take its next step, settles only by
\* returning its handle or by failing after its own retryAttempts attempts,
\* and when it succeeds after the rejection it caches its handle and adds its
\* duration to totalWaitTime.
C21_NoCancellation ==
    /\ [](\A c \in Range(batch.members) :
            /\ (batch.state = "rejected" /\ InFlight(c))
                  => ENABLED (LocateOk(c) \/ LocateFail(c) \/ WaitOk(c) \/ WaitFail(c)
                              \/ PauseDone(c) \/ ScreenshotSaved(c))
            /\ calls[c].pc = "done"
                  => \/ calls[c].result.kind = "ok"
                     \/ calls[c].result.kind = "err" /\ calls[c].locates = retryAttempts)
    /\ [][(batch.state = "pending" /\ batch'.state = "rejected")
            => \A c \in CallIds : c # batch'.by => calls'[c] = calls[c]]_vars
    /\ [][\A c \in Range(batch.members) :
            (batch.state = "rejected" /\ InFlight(c) /\ calls'[c].result.kind = "ok")
            => /\ CacheHas(elementCache', KeyOf(calls[c]))
               /\ CacheGet(elementCache', KeyOf(calls[c])) = calls'[c].result.handle
               /\ performanceMetrics'.totalWaitTime
                     = performanceMetrics.totalWaitTime + calls[c].elapsed
               /\ performanceMetrics'.elementLookups = performanceMetrics.elementLookups
               /\ batch' = Completed(batch, c)]_vars

C21_Witness ==
    /\ batch.state = "rejected"
    /\ Len(batch.completed) = 2
    /\ batch.members[batch.completed[1]] = batch.by
    /\ LET c == batch.members[batch.completed[2]] IN
          /\ calls[c].result.kind = "ok"
          /\ calls[c].locates = 2
          /\ CacheGet(elementCache, KeyOf(calls[c])) = calls[c].result.handle

\* the findElement calls started so far, and those that went to the remote
\* session
Started == { c \in CallIds : calls[c].pc # "unstarted" }
WentRemote == { c \in Started : calls[c].locates >= 1 }

\* C22: 0 <= cacheHits <= elementLookups; elementLookups is the number of
\* findElement calls started so far, whatever their outcome, and
\* elementLookups - cacheHits is the number of calls that went to the remote
\* session.
C22_CounterInvariant ==
    /\ 0 <= performanceMetrics.cacheHits
    /\ performanceMetrics.cacheHits <= performanceMetrics.elementLookups
    /\ performanceMetrics.elementLookups = Cardinality(Started)
    /\ performanceMetrics.elementLookups - performanceMetrics.cacheHits
          = Cardinality(WentRemote)
    /\ performanceMetrics.cacheHits = Cardinality({ c \in Started : calls[c].hit })
    /\ \A c \in Started : calls[c].hit <=> calls[c].locates = 0

C22_Witness ==
    /\ performanceMetrics.elementLookups = 2
    /\ performanceMetrics.cacheHits = 0
    /\ \E c, x \in CallIds :
          /\ calls[c].result.kind = "err"
          /\ calls[x].result.kind = "ok" /\ calls[x].locates = 3

\* C23: when every remote call returns or throws, a findElement call that
\* has started settles; it makes at most retryAttempts attempts and
\* retryAttempts - 1 pauses and settles by returning a handle or by throwing,
\* never with an undefined result.
C23_Termination ==
    /\ \A c \in CallIds : InFlight(c) ~> calls[c].pc = "done"
    /\ [](\A c \in CallIds :
            /\ calls[c].attempt <= 3
            /\ calls[c].locates <= 3
            /\ Len(calls[c].pauses) <= 2
            /\ calls[c].pc = "done" => calls[c].result.kind \in {"ok", "err"}
            /\ calls[c].result.kind = "ok" => calls[c].result.handle # NoHandle)

C23_Witness ==
    \E c \in CallIds :
        /\ calls[c].pc = "done"
        /\ calls[c].result.kind = "ok"
        /\ calls[c].locates = 3
        /\ Len(calls[c].pauses) = 2
        /\ calls[c].result.handle = Handle(c, 3)

\* C24: a failing findElement reaches its screenshot and throws its
\* resolution failure within the timeout of the step that called it.
C24_BudgetFitsStepTimeout ==
    \A c \in CallIds, stepTimeout \in StepTimeouts :
        (calls[c].pc = "shot" \/ calls[c].result.kind = "err")
        => calls[c].elapsed <= stepTimeout

RECURSIVE SumSeq(_)
SumSeq(seq) == IF seq = <<>> THEN 0 ELSE Head(seq) + SumSeq(Tail(seq))

\* call c returns, in this step, the element it resolved remotely
ResolvesNow(c) == calls[c].pc = "wait" /\ calls'[c].pc = "done"
                  /\ calls'[c].result.kind = "ok"

\* C30: totalWaitTime changes only in the step in which a findElement call
\* succeeds through the remote session, and then by the time gone by since
\* that call started, the pauses and the timed-out waits of its failed
\* attempts included; a cache hit and a call that exhausts its attempts leave
\* it unchanged.
C30_WaitTimeOnSuccessOnly ==
    /\ [][performanceMetrics'.totalWaitTime # performanceMetrics.totalWaitTime
            => \E c \in CallIds : ResolvesNow(c)]_vars
    /\ [][\A c \in CallIds :
            /\ ResolvesNow(c)
                 => /\ performanceMetrics'.totalWaitTime
                          = performanceMetrics.totalWaitTime + calls[c].elapsed
                    /\ calls[c].elapsed >= SumSeq(calls[c].pauses)
                    /\ calls[c].elapsed <= (calls[c].attempt - 1) * (elementWait + retryDelay)
                    /\ Len(calls[c].pauses) = calls[c].attempt - 1
                    /\ calls[c].lastError = "timeout"
                          => calls[c].elapsed >= SumSeq(calls[c].pauses) + elementWait
            /\ (StartsNow(c) /\ calls'[c].hit)
                 => performanceMetrics'.totalWaitTime = performanceMetrics.totalWaitTime
            /\ (calls[c].pc # "done" /\ calls'[c].result.kind = "err")
                 => performanceMetrics'.totalWaitTime = performanceMetrics.totalWaitTime]_vars
    /\ [](performanceMetrics.totalWaitTime
             = SumSeq([c \in CallIds |-> IF calls[c].result.kind = "ok" /\ ~calls[c].hit
                                         THEN calls[c].elapsed ELSE 0]))

C30_Witness ==
    /\ performanceMetrics.totalWaitTime = 2 * elementWait + 2 * retryDelay
    /\ performanceMetrics.cacheHits = 1
    /\ calls[1].result.kind = "ok" /\ calls[1].locates = 3
    /\ calls[2].hit

\* C25: clickOnAddToReadingListOption completes without error only if a
\* candidate was displayed and clicked, and clickOnMoreOptionsIcon only if a
\* candidate was displayed; when the loop ends with no candidate displayed
\* the operation throws 'Could not find Add to Reading List option'.
C25_SuccessOnlyOnRealHit ==
    (op.pc = "done" /\ op.name \in {"clickOnMoreOptionsIcon", "clickOnAddToReadingListOption"})
    => /\ op.result.kind = "ok"
            => /\ op.shown
               /\ op.name = "clickOnAddToReadingListOption" => op.clicked
       /\ (op.candidate > 0 /\ ~op.shown)
            => /\ op.result.kind = "error"
               /\ op.result.cause = "Could not find Add to Reading List option"

\* C26: every key a page operation reads exists in the locators table, so no
\* findElement call is given an undefined selector, and verifyTwoNewArticles
\* resolves two defined, distinct selectors.
C26_SelectorsDefined ==
    /\ \A c \in Started : calls[c].selector # UndefinedSelector
    /\ (op.name = "verifyTwoNewArticles" /\ Len(op.finds) = 2)
          => /\ calls[op.finds[1]].selector # calls[op.finds[2]].selector
             /\ \A i \in 1..2 :
                   \E k \in DOMAIN locators : calls[op.finds[i]].selector = locators[k]

\* the operation in progress ends, in this step, by throwing
OpThrowsNow == op.pc # "done" /\ op'.pc = "done" /\ op'.result.kind # "ok"

\* C27: readingListName changes only in the step in which an
\* enterReadingListName call, given a valid name, has verified the text read
\* back from the element, and then to the trimmed name; a call that throws
\* leaves it unchanged; verifyNewsArticleIsAddedToReadingList called with no
\* name set throws 'Reading list name not set' without any lookup or remote
\* call, and otherwise compares the title with the name stored last.
C27_ReadingListNameProtocol ==
    /\ [][readingListName' # readingListName
            => /\ op.name = "enterReadingListName"
               /\ op.pc = "getText"
               /\ ~InvalidText(op.arg)
               /\ op'.pc = "logStep"
               /\ readingListName' = JsString(Trim(op.arg.str))]_vars
    /\ [][(OpThrowsNow \/ (OpInvoked /\ op'.pc = "done"))
            => readingListName' = readingListName]_vars
    /\ [][(OpInvoked /\ op'.name = "verifyNewsArticleIsAddedToReadingList")
            => IF ~Truthy(readingListName)
               THEN /\ op'.pc = "done"
                    /\ op'.result.cause = "Reading list name not set"
                    /\ op'.remote = 0
                    /\ op'.logs = <<>>
                    /\ UNCHANGED <<elementCache, performanceMetrics, calls, batch>>
               ELSE /\ op'.pc = "batch"
                    /\ batch'.configs = ReadingListConfigs]_vars
    /\ [][(op.name = "verifyNewsArticleIsAddedToReadingList" /\ op.pc = "getText"
            /\ op' # op /\ op'.result.cause # "remote")
            => /\ op'.arg = readingListName
               /\ op'.pc = "done" => op'.result.cause = "Reading list name mismatch"]_vars
    /\ []((op.name = "verifyNewsArticleIsAddedToReadingList" /\ op.result.kind = "ok")
             => (op.arg = readingListName /\ Truthy(op.arg)))
    /\ [](readingListName = JsUndefined
          \/ (readingListName.type = "string" /\ readingListName.str # <<>>
              /\ Trim(readingListName.str) = readingListName.str))

C27_Witness ==
    /\ op.name = "verifyNewsArticleIsAddedToReadingList"
    /\ op.pc = "done"
    /\ op.result.kind = "ok"
    /\ op.arg = JsString(<<"d", "e">>)
    /\ readingListName = JsString(<<"d", "e">>)
    /\ performanceMetrics.elementLookups = 3
\* a step result given to AfterStep so far was FAILED
HasFailed(results) == \E i \in DOMAIN results : results[i] = "FAILED"

\* position of the first attempt of a call in the After hook, 0 if none
FirstAttempt(call) ==
    IF \E i \in DOMAIN world.events : world.events[i] = call
    THEN CHOOSE i \in DOMAIN world.events :
            /\ world.events[i] = call
            /\ \A j \in 1..(i - 1) : world.events[j] # call
    ELSE 0

\* the flag and the status: false after Before, true from the first FAILED
\* result on and never lowered within the scenario; the status handed to
\* setSessionStatus is 'failed' exactly if the flag is true
FlagAndStatus ==
    /\ [](world.driver => world.scenarioFailed = JsBoolean(HasFailed(world.results)))
    /\ [][(world.scenarioFailed = JsBoolean(TRUE) /\ world'.variant = world.variant)
             => world'.scenarioFailed = JsBoolean(TRUE)]_vars
    /\ [](world.status # "none"
             => (world.status = "failed" <=> world.scenarioFailed = JsBoolean(TRUE)))

\* deleteSession is attempted in every After hook that found a driver, also
\* after a status report that threw, and no error leaves the hook
DeleteAlwaysAttempted ==
    /\ []((world.pc = "done" /\ world.driver) => FirstAttempt("deleteSession") > 0)
    /\ []((world.driver /\ "setSessionStatus" \in Range(world.caught))
             => FirstAttempt("deleteSession") > FirstAttempt("setSessionStatus"))
    /\ [](~world.escaped)

\* C28 as stated: in every After hook that finds a driver the status report
\* is attempted, and attempted before deleteSession.
C28_TeardownAsStated ==
    /\ FlagAndStatus
    /\ DeleteAlwaysAttempted
    /\ [](FirstAttempt("deleteSession") > 0
             => /\ FirstAttempt("setSessionStatus") > 0
                /\ FirstAttempt("setSessionStatus") < FirstAttempt("deleteSession"))

\* C28: scenarioFailed is false after Before, true from the first FAILED step
\* result on and never lowered; in an After hook that finds a driver the
\* status report is attempted exactly if the hook is the basic one or
\* process.env.BROWSERSTACK is 'true', with status 'failed' exactly if
\* scenarioFailed is true, and before deleteSession; deleteSession is
\* attempted in every such hook, also after a report that threw, and no error
\* leaves the hook.
C28_Teardown ==
    /\ FlagAndStatus
    /\ DeleteAlwaysAttempted
    /\ [](FirstAttempt("deleteSession") > 0
             => /\ FirstAttempt("setSessionStatus") > 0
                   <=> (world.variant = "basic" \/ world.environment = EnvTrue)
                /\ FirstAttempt("setSessionStatus") < FirstAttempt("deleteSession"))

C28_Witness ==
    /\ world.pc = "done" /\ world.variant = "optimized"
    /\ world.results = <<"PASSED", "FAILED">>
    /\ world.status = "failed"
    /\ world.events = <<"setSessionStatus", "deleteSession", "quit">>
    /\ world.caught = <<"setSessionStatus", "deleteSession">>
\* getCapabilities is called in this step
CapsCalled == capsCall'.count = capsCall.count + 1

\* C29: a repeated call with the same options and BROWSERSTACK value returns
\* the object returned before without building or validating; two calls that
\* differ in their options or in the BROWSERSTACK value never get the same
\* object; a miss with BROWSERSTACK 'true' and a credential missing throws
\* 'Capabilities configuration failed: ...', and a call that throws leaves the
\* cache as it was.
C29_CapabilitiesCache ==
    /\ [][(CapsCalled /\ <<capsCall'.environment, capsCall'.options>> \in DOMAIN capsCall.returned)
             => /\ capsCall'.kind = "ok"
                /\ capsCall'.value = capsCall.returned[<<capsCall'.environment, capsCall'.options>>]
                /\ ~capsCall'.built /\ ~capsCall'.validated
                /\ configCache' = configCache]_vars
    /\ [](\A p, q \in DOMAIN capsCall.returned :
             p # q => capsCall.returned[p].id # capsCall.returned[q].id)
    /\ [][(CapsCalled /\ ~CacheHas(configCache, capsCall'.key)
              /\ env.BROWSERSTACK = EnvTrue
              /\ (~Truthy(env.BROWSERSTACK_USERNAME) \/ ~Truthy(env.BROWSERSTACK_ACCESS_KEY)))
             => capsCall'.kind = "error"]_vars
    /\ [][(CapsCalled /\ capsCall'.kind = "error")
             => /\ capsCall'.message[1] = "Capabilities configuration failed: "
                /\ configCache' = configCache]_vars
====
